---- MODULE Spec2Model ----
(***************************************************************************)
(* SceneSynth: the graph-of-graphs data model.                             *)
(*   SceneGraph        src/core/graph/scene_graph.py                       *)
(*   HierarchyManager  src/core/graph/hierarchy.py                         *)
(*   commands          src/core/commands/graph_commands.py                 *)
(*                                                                         *)
(* Every SceneGraph method is a pure operator from a graph value to the    *)
(* graph value after the call (and, where the method can raise, to the     *)
(* exception it ends with).  Python dicts are functions; the adjacency     *)
(* lists are sequences.  A dict is iterated in ascending key order, so     *)
(* only results that do not depend on insertion order are compared.        *)
(***************************************************************************)
EXTENDS Integers, Sequences, FiniteSets, TLC

VARIABLES
    graph,              \* the SceneGraph under edit
    last,               \* the call made last: its name and the exception it ended with
    cmd,                \* the QUndoCommand under test, with what it captured
    hist,               \* history of that command: the graph before and after its first redo
    stack,              \* commands applied and not yet undone, oldest first
    graphs,             \* HierarchyManager._graphs
    root_graph_id,      \* HierarchyManager._root_graph_id
    current_graph_id,   \* HierarchyManager._current_graph_id
    navigation_stack,   \* HierarchyManager._navigation_stack
    made                \* how many times a graph was handed to the manager

vars == <<graph, last, cmd, hist, stack, graphs, root_graph_id,
          current_graph_id, navigation_stack, made>>

graphVars == <<graph, last>>
cmdVars   == <<cmd, hist, stack>>
hierVars  == <<graphs, root_graph_id, current_graph_id, navigation_stack, made>>

----------------------------------------------------------------------------
(* Bounds *)

MaxNodes == 2
MaxEdges == 2

NodeIds == 1..MaxNodes
EdgeIds == 1..MaxEdges

----------------------------------------------------------------------------
(* Values *)

\* Python's None, for the Optional[str] id fields.
None == 0

\* None where an object (a node, an edge, a graph) is expected
NoneObj == <<>>

NoExc      == "none"
ValueError == "ValueError"

Names == {"a", "b"}

\* None where a string (a colour) is expected
NoneStr == "None"

\* NODE_COLORS["location"], the colour of the default node type
NODE_COLOR == "#4A90D9"

\* SceneNode.__post_init__
post_init(node) ==
    IF node.color = NoneStr THEN [node EXCEPT !.color = NODE_COLOR] ELSE node

\* SceneNode: the fields the graph, the hierarchy and the commands read.
SceneNode(id, name) ==
    post_init([id |-> id, name |-> name, parent_graph_id |-> None,
               child_graph_id |-> None, is_expandable |-> TRUE,
               color |-> NoneStr])

\* SceneEdge
SceneEdge(id, s, t, rel, bidi) ==
    [id |-> id, source_id |-> s, target_id |-> t, relationship |-> rel,
     is_bidirectional |-> bidi]

\* SceneEdge.connects
connects(e, node_id) == e.source_id = node_id \/ e.target_id = node_id

----------------------------------------------------------------------------
(* dict and list helpers *)

EmptyDict == [k \in {} |-> None]

\* d[k] = v
DictSet(d, k, v) == [x \in DOMAIN d \cup {k} |-> IF x = k THEN v ELSE d[x]]

\* del d[k] / d.pop(k)
DictDel(d, k) == [x \in DOMAIN d \ {k} |-> d[x]]

\* x in list
InList(s, x) == \E i \in DOMAIN s : s[i] = x

\* list.remove(x): the first occurrence goes
RECURSIVE ListRemove(_, _)
ListRemove(s, x) ==
    IF s = <<>> THEN <<>>
    ELSE IF Head(s) = x THEN Tail(s)
    ELSE <<Head(s)>> \o ListRemove(Tail(s), x)

ListSet(s) == {s[i] : i \in DOMAIN s}

\* the keys of a dict in iteration order
RECURSIVE KeyList(_)
KeyList(S) ==
    IF S = {} THEN <<>>
    ELSE LET m == CHOOSE x \in S : \A y \in S : x <= y
         IN <<m>> \o KeyList(S \ {m})

----------------------------------------------------------------------------
(* SceneGraph *)

\* SceneGraph.__init__
NewGraph(gid) ==
    [id |-> gid, name |-> "", master_prompt |-> "", depth_level |-> 0,
     parent_graph_id |-> None, parent_node_id |-> None, nodes |-> EmptyDict,
     edges |-> EmptyDict, adjacency |-> EmptyDict, rendered_image |-> NoneObj]

\* SceneGraph.add_node
add_node(g, node) ==
    LET n == [node EXCEPT !.parent_graph_id = g.id]
    IN [g EXCEPT !.nodes = DictSet(@, n.id, n),
                 !.adjacency = IF n.id \in DOMAIN @ THEN @
                               ELSE DictSet(@, n.id, <<>>)]

\* SceneGraph.remove_edge: the graph after the call
remove_edge(g, edge_id) ==
    IF edge_id \notin DOMAIN g.edges THEN g
    ELSE LET edge == g.edges[edge_id]
             a1 == IF edge.source_id \in DOMAIN g.adjacency
                      /\ InList(g.adjacency[edge.source_id], edge.target_id)
                   THEN [g.adjacency EXCEPT ![edge.source_id] =
                            ListRemove(@, edge.target_id)]
                   ELSE g.adjacency
             a2 == IF edge.is_bidirectional
                      /\ edge.target_id \in DOMAIN a1
                      /\ InList(a1[edge.target_id], edge.source_id)
                   THEN [a1 EXCEPT ![edge.target_id] =
                            ListRemove(@, edge.source_id)]
                   ELSE a1
         IN [g EXCEPT !.edges = DictDel(@, edge_id), !.adjacency = a2]

\* SceneGraph.remove_edge: what it returns
remove_edge_ret(g, edge_id) ==
    IF edge_id \notin DOMAIN g.edges THEN NoneObj ELSE g.edges[edge_id]

\* for edge_id in ids: self.remove_edge(edge_id)
RECURSIVE remove_edges(_, _)
remove_edges(g, ids) ==
    IF ids = <<>> THEN g
    ELSE remove_edges(remove_edge(g, Head(ids)), Tail(ids))

\* get_edges_for_node that finds only the edges leaving the node
get_edges_leaving_node(g, node_id) ==
    KeyList({k \in DOMAIN g.edges : g.edges[k].source_id = node_id})

\* SceneGraph.get_edges_for_node, as the list of edge ids
get_edges_for_node(g, node_id) ==
    KeyList({k \in DOMAIN g.edges : connects(g.edges[k], node_id)})

\* remove_node that leaves an empty adjacency entry behind for an id it did
\* not find
remove_node_touching(g, node_id) ==
    IF node_id \in DOMAIN g.nodes \/ node_id \in DOMAIN g.adjacency
    THEN LET g1 == [g EXCEPT !.nodes = DictDel(@, node_id)]
             g2 == remove_edges(g1, get_edges_for_node(g1, node_id))
         IN [g2 EXCEPT !.adjacency = DictDel(@, node_id)]
    ELSE [g EXCEPT !.adjacency = DictSet(@, node_id, <<>>)]

\* remove_node with the removal of the touching edges left out
remove_node_keep_edges(g, node_id) ==
    IF node_id \notin DOMAIN g.nodes THEN g
    ELSE [g EXCEPT !.nodes = DictDel(@, node_id),
                   !.adjacency = IF node_id \in DOMAIN @ THEN DictDel(@, node_id) ELSE @]

\* SceneGraph.remove_node: the graph after the call
remove_node(g, node_id) ==
    IF node_id \notin DOMAIN g.nodes THEN g
    ELSE LET g1 == [g EXCEPT !.nodes = DictDel(@, node_id)]
             g2 == remove_edges(g1, get_edges_for_node(g1, node_id))
         IN IF node_id \in DOMAIN g2.adjacency
            THEN [g2 EXCEPT !.adjacency = DictDel(@, node_id)]
            ELSE g2

\* SceneGraph.remove_node: what it returns
remove_node_ret(g, node_id) ==
    IF node_id \notin DOMAIN g.nodes THEN NoneObj ELSE g.nodes[node_id]

\* add_edge_raises with the target's check left out
add_edge_raises_source_only(g, edge) == edge.source_id \notin DOMAIN g.nodes

\* SceneGraph.add_edge: whether it raises ValueError
add_edge_raises(g, edge) ==
    edge.source_id \notin DOMAIN g.nodes \/ edge.target_id \notin DOMAIN g.nodes

\* SceneGraph.add_edge: the graph after the call
add_edge(g, edge) ==
    IF add_edge_raises(g, edge) THEN g
    ELSE LET a0 == IF edge.source_id \notin DOMAIN g.adjacency
                   THEN DictSet(g.adjacency, edge.source_id, <<>>)
                   ELSE g.adjacency
             a1 == IF ~InList(a0[edge.source_id], edge.target_id)
                   THEN [a0 EXCEPT ![edge.source_id] = Append(@, edge.target_id)]
                   ELSE a0
             a2 == IF ~edge.is_bidirectional THEN a1
                   ELSE LET b0 == IF edge.target_id \notin DOMAIN a1
                                  THEN DictSet(a1, edge.target_id, <<>>)
                                  ELSE a1
                        IN IF ~InList(b0[edge.target_id], edge.source_id)
                           THEN [b0 EXCEPT ![edge.target_id] =
                                    Append(@, edge.source_id)]
                           ELSE b0
         IN [g EXCEPT !.edges = DictSet(@, edge.id, edge), !.adjacency = a2]

\* SceneGraph.update_node: hasattr/setattr over a node's fields
update_node(g, node_id, kwargs) ==
    IF node_id \notin DOMAIN g.nodes THEN g
    ELSE [g EXCEPT !.nodes[node_id] =
            [f \in DOMAIN @ |-> IF f \in DOMAIN kwargs THEN kwargs[f] ELSE @[f]]]

\* clear that also forgets the rendered image
clear_all(g) ==
    [g EXCEPT !.nodes = EmptyDict, !.edges = EmptyDict, !.adjacency = EmptyDict,
              !.rendered_image = NoneObj]

\* SceneGraph.clear
clear(g) ==
    [g EXCEPT !.nodes = EmptyDict, !.edges = EmptyDict, !.adjacency = EmptyDict]

\* The 65th character of the base64 alphabet, "=", which fills the last
\* group of four; the other characters are written as their index 0..63.
Pad == 64

\* base64.b64encode(...).decode('utf-8'): three bytes give four characters
RECURSIVE b64encode(_)
b64encode(b) ==
    IF b = <<>> THEN <<>>
    ELSE IF Len(b) = 1
         THEN <<b[1] \div 4, (b[1] % 4) * 16, Pad, Pad>>
    ELSE IF Len(b) = 2
         THEN <<b[1] \div 4, (b[1] % 4) * 16 + b[2] \div 16, (b[2] % 16) * 4, Pad>>
    ELSE <<b[1] \div 4, (b[1] % 4) * 16 + b[2] \div 16,
           (b[2] % 16) * 4 + b[3] \div 64, b[3] % 64>>
         \o b64encode(SubSeq(b, 4, Len(b)))

\* base64.b64decode of a string that b64encode wrote
RECURSIVE b64decode(_)
b64decode(s) ==
    IF s = <<>> THEN <<>>
    ELSE IF s[3] = Pad
         THEN <<s[1] * 4 + s[2] \div 16>>
    ELSE IF s[4] = Pad
         THEN <<s[1] * 4 + s[2] \div 16, (s[2] % 16) * 16 + s[3] \div 4>>
    ELSE <<s[1] * 4 + s[2] \div 16, (s[2] % 16) * 16 + s[3] \div 4,
           (s[3] % 4) * 64 + s[4]>>
         \o b64decode(SubSeq(s, 5, Len(s)))

\* An Optional value that is set: None is NoneObj, a string or a byte string
\* v is the one-element sequence of v, so that the empty string is not None.
Some(v) == <<v>>

\* bool(x) of an Optional[str]
Truthy(x) == x # NoneObj /\ x[1] # <<>>

\* SceneGraph.set_rendered_image
set_rendered_image(g, image_bytes) ==
    [g EXCEPT !.rendered_image = Some(b64encode(image_bytes))]

\* SceneGraph.get_rendered_image
get_rendered_image(g) ==
    IF Truthy(g.rendered_image) THEN Some(b64decode(g.rendered_image[1]))
    ELSE NoneObj

\* SceneGraph.has_rendered_image
has_rendered_image(g) == g.rendered_image # NoneObj

\* SceneGraph.clear_rendered_image
clear_rendered_image(g) == [g EXCEPT !.rendered_image = NoneObj]

----------------------------------------------------------------------------
(* Commands: graph_commands.py.  redo and undo map the graph and the       *)
(* command object to the graph, the command object and the exception the   *)
(* call ends with.                                                         *)

\* SceneGraph.get_node
get_node(g, node_id) ==
    IF node_id \in DOMAIN g.nodes THEN g.nodes[node_id] ELSE NoneObj

\* list(self.graph.nodes()), list(self.graph.edges())
ValueList(d) == LET ks == KeyList(DOMAIN d) IN [i \in DOMAIN ks |-> d[ks[i]]]

Result(g, c, exc) == [graph |-> g, cmd |-> c, exc |-> exc]

\* for node in nodes: self.graph.add_node(node)
RECURSIVE add_nodes(_, _)
add_nodes(g, nodes) ==
    IF nodes = <<>> THEN g ELSE add_nodes(add_node(g, Head(nodes)), Tail(nodes))

\* add_edges_try with the try/except left out: the first ValueError ends the loop
RECURSIVE add_edges_uncaught(_, _)
add_edges_uncaught(g, edges) ==
    IF edges = <<>> THEN [graph |-> g, exc |-> NoExc]
    ELSE IF add_edge_raises(g, Head(edges)) THEN [graph |-> g, exc |-> ValueError]
    ELSE add_edges_uncaught(add_edge(g, Head(edges)), Tail(edges))

\* for edge in edges: try: self.graph.add_edge(edge) / except ValueError: pass
RECURSIVE add_edges_try(_, _)
add_edges_try(g, edges) ==
    IF edges = <<>> THEN [graph |-> g, exc |-> NoExc]
    ELSE add_edges_try(add_edge(g, Head(edges)), Tail(edges))

\* AddNodeCommand.__init__
AddNodeCommand(node) == [kind |-> "AddNode", node |-> node]

\* AddNodeCommand.redo (add_node stamps the command's node object)
AddNodeCommand_redo(g, c) ==
    Result(add_node(g, c.node), [c EXCEPT !.node.parent_graph_id = g.id], NoExc)

\* AddNodeCommand.undo
AddNodeCommand_undo(g, c) == Result(remove_node(g, c.node.id), c, NoExc)

\* RemoveNodeCommand.__init__
RemoveNodeCommand(node_id) ==
    [kind |-> "RemoveNode", node_id |-> node_id, removed_node |-> NoneObj,
     removed_edges |-> <<>>]

\* RemoveNodeCommand.redo
RemoveNodeCommand_redo(g, c) ==
    LET ids == get_edges_for_node(g, c.node_id)
        removed_edges == [i \in DOMAIN ids |-> g.edges[ids[i]]]
        g1 == remove_edges(g, ids)
    IN Result(remove_node(g1, c.node_id),
              [c EXCEPT !.removed_node = get_node(g, c.node_id),
                        !.removed_edges = removed_edges],
              NoExc)

\* RemoveNodeCommand.undo
RemoveNodeCommand_undo(g, c) ==
    LET g1 == IF c.removed_node # NoneObj THEN add_node(g, c.removed_node) ELSE g
        r == add_edges_try(g1, c.removed_edges)
    IN Result(r.graph, c, r.exc)

\* ModifyNodeCommand.__init__
ModifyNodeCommand(node_id, new_values) ==
    [kind |-> "ModifyNode", node_id |-> node_id, new_values |-> new_values,
     old_values |-> EmptyDict]

\* getattr(node, key, None)
getattr(node, key) == IF key \in DOMAIN node THEN node[key] ELSE None

\* ModifyNodeCommand.redo with the old values read after the new ones are written
ModifyNodeCommand_redo_late(g, c) ==
    LET g1 == update_node(g, c.node_id, c.new_values)
        node == get_node(g1, c.node_id)
    IN IF node # NoneObj
       THEN Result(g1,
                   [c EXCEPT !.old_values =
                       [k \in DOMAIN @ \cup DOMAIN c.new_values |->
                           IF k \in DOMAIN c.new_values THEN getattr(node, k)
                           ELSE @[k]]],
                   NoExc)
       ELSE Result(g, c, NoExc)

\* ModifyNodeCommand.redo
ModifyNodeCommand_redo(g, c) ==
    LET node == get_node(g, c.node_id)
    IN IF node # NoneObj
       THEN Result(update_node(g, c.node_id, c.new_values),
                   [c EXCEPT !.old_values =
                       [k \in DOMAIN @ \cup DOMAIN c.new_values |->
                           IF k \in DOMAIN c.new_values THEN getattr(node, k)
                           ELSE @[k]]],
                   NoExc)
       ELSE Result(g, c, NoExc)

\* ModifyNodeCommand.undo
ModifyNodeCommand_undo(g, c) ==
    Result(update_node(g, c.node_id, c.old_values), c, NoExc)

\* ReplaceGraphCommand.__init__
ReplaceGraphCommand(new_nodes, new_edges) ==
    [kind |-> "ReplaceGraph", new_nodes |-> new_nodes, new_edges |-> new_edges,
     old_nodes |-> <<>>, old_edges |-> <<>>]

\* ReplaceGraphCommand.redo
ReplaceGraphCommand_redo(g, c) ==
    LET r == add_edges_try(add_nodes(clear(g), c.new_nodes), c.new_edges)
    IN Result(r.graph,
              [c EXCEPT !.old_nodes = ValueList(g.nodes),
                        !.old_edges = ValueList(g.edges)],
              r.exc)

\* ReplaceGraphCommand.undo
ReplaceGraphCommand_undo(g, c) ==
    LET r == add_edges_try(add_nodes(clear(g), c.old_nodes), c.old_edges)
    IN Result(r.graph, c, r.exc)

\* QUndoCommand.redo, dispatched on the command's class
redo(g, c) ==
    CASE c.kind = "AddNode"      -> AddNodeCommand_redo(g, c)
      [] c.kind = "RemoveNode"   -> RemoveNodeCommand_redo(g, c)
      [] c.kind = "ModifyNode"   -> ModifyNodeCommand_redo(g, c)
      [] c.kind = "ReplaceGraph" -> ReplaceGraphCommand_redo(g, c)

\* QUndoCommand.undo, dispatched on the command's class
undo(g, c) ==
    CASE c.kind = "AddNode"      -> AddNodeCommand_undo(g, c)
      [] c.kind = "RemoveNode"   -> RemoveNodeCommand_undo(g, c)
      [] c.kind = "ModifyNode"   -> ModifyNodeCommand_undo(g, c)
      [] c.kind = "ReplaceGraph" -> ReplaceGraphCommand_undo(g, c)

----------------------------------------------------------------------------
(* Inputs of the direct SceneGraph calls *)

NodeInputs == {SceneNode(i, "a") : i \in NodeIds}

\* Bidirectional edges (the dataclass default) and one-way edges, between
\* any two ids, present in the graph or not.
EdgeInputs ==
    {SceneEdge(i, s, t, "connected_to", TRUE) : i \in EdgeIds, s \in NodeIds, t \in NodeIds}
    \cup
    {SceneEdge(i, s, t, "leads_to", FALSE) : i \in EdgeIds, s \in NodeIds, t \in NodeIds}

\* what a call returned: nothing, an object, True or False
RetNone  == "None"
RetObj   == "object"
RetTrue  == "True"
RetFalse == "False"

Call(op, exc, ret) == [op |-> op, exc |-> exc, ret |-> ret]

NoCall == Call("init", NoExc, RetNone)
NoCmd  == [kind |-> "none"]
NoHist == [phase |-> "none", pre |-> NoneObj, post |-> NoneObj, clean |-> TRUE,
           redone |-> FALSE]

----------------------------------------------------------------------------
(* Direct calls on one SceneGraph *)

AddNodeOp ==
    \E node \in NodeInputs :
        /\ graph' = add_node(graph, node)
        /\ last' = Call("add_node", NoExc, RetNone)

RemoveNodeOp ==
    \E node_id \in NodeIds :
        /\ graph' = remove_node(graph, node_id)
        /\ last' = Call("remove_node", NoExc,
                        IF remove_node_ret(graph, node_id) = NoneObj THEN RetNone ELSE RetObj)

\* A new SceneEdge takes a fresh uuid4 as its id.
AddEdgeFrom(inputs) ==
    \E edge \in inputs :
        /\ edge.id \notin DOMAIN graph.edges
        /\ graph' = add_edge(graph, edge)
        /\ last' = Call("add_edge",
                        IF add_edge_raises(graph, edge) THEN ValueError ELSE NoExc,
                        RetNone)

AddEdgeOp == AddEdgeFrom(EdgeInputs)

RemoveEdgeOp ==
    \E edge_id \in EdgeIds :
        /\ graph' = remove_edge(graph, edge_id)
        /\ last' = Call("remove_edge", NoExc,
                        IF remove_edge_ret(graph, edge_id) = NoneObj THEN RetNone ELSE RetObj)

GraphInit ==
    /\ graph = NewGraph(1)
    /\ last = NoCall

CmdIdle ==
    /\ cmd = NoCmd
    /\ hist = NoHist
    /\ stack = <<>>

HierIdle ==
    /\ graphs = EmptyDict
    /\ root_graph_id = None
    /\ current_graph_id = None
    /\ navigation_stack = <<>>
    /\ made = 0

Init == GraphInit /\ CmdIdle /\ HierIdle

Next ==
    \/ AddNodeOp /\ UNCHANGED <<cmdVars, hierVars>>
    \/ RemoveNodeOp /\ UNCHANGED <<cmdVars, hierVars>>
    \/ AddEdgeOp /\ UNCHANGED <<cmdVars, hierVars>>
    \/ RemoveEdgeOp /\ UNCHANGED <<cmdVars, hierVars>>

\* Any sequence of add_node, remove_node, add_edge, remove_edge on one graph.
Spec == Init /\ [][Next]_vars

----------------------------------------------------------------------------
(* One command on a graph built by direct calls *)

\* The ids of the nodes and edges an AI result brings: fresh uuid4 values.
FreshNode(k, name) == SceneNode(MaxNodes + k, name)
FreshEdge(k, s, t, rel, bidi) == SceneEdge(MaxEdges + k, MaxNodes + s, MaxNodes + t, rel, bidi)

\* Three new nodes and three new edges, one of them naming a node that is not
\* among the new ones (node 1 of the old graph); and a one-node result.
ReplaceInputs ==
    { ReplaceGraphCommand(
          <<FreshNode(1, "a"), FreshNode(2, "a"), FreshNode(3, "b")>>,
          <<FreshEdge(1, 1, 2, "connected_to", TRUE),
            FreshEdge(2, 2, 3, "leads_to", FALSE),
            [FreshEdge(3, 1, 1, "connected_to", TRUE) EXCEPT !.target_id = 1]>>),
      ReplaceGraphCommand(
          <<FreshNode(1, "b")>>,
          <<FreshEdge(1, 1, 1, "leads_to", FALSE)>>) }

\* ModifyNodeCommand's **new_values; "nosuch" is no field of SceneNode
NewValues ==
    { [name |-> "b"],
      [name |-> "b", nosuch |-> "v"],
      [is_expandable |-> FALSE] }

CommandInputs ==
    {AddNodeCommand(SceneNode(i, "b")) : i \in NodeIds}
    \cup {RemoveNodeCommand(i) : i \in NodeIds}
    \cup {ModifyNodeCommand(i, nv) : i \in NodeIds, nv \in NewValues}
    \cup ReplaceInputs

\* A command is made for the graph and redo() runs for the first time.
Apply ==
    /\ cmd = NoCmd
    /\ \E c \in CommandInputs :
        LET r == redo(graph, c)
        IN /\ graph' = r.graph
           /\ cmd' = r.cmd
           /\ last' = Call("redo", r.exc, RetNone)
           /\ hist' = [phase |-> "applied", pre |-> graph, post |-> r.graph,
                       clean |-> TRUE, redone |-> FALSE]
    /\ UNCHANGED stack

Undo ==
    /\ hist.phase = "applied"
    /\ LET r == undo(graph, cmd)
       IN /\ graph' = r.graph
          /\ cmd' = r.cmd
          /\ last' = Call("undo", r.exc, RetNone)
    /\ hist' = [hist EXCEPT !.phase = "undone"]
    /\ UNCHANGED stack

Redo ==
    /\ hist.phase = "undone"
    /\ LET r == redo(graph, cmd)
       IN /\ graph' = r.graph
          /\ cmd' = r.cmd
          /\ last' = Call("redo", r.exc, RetNone)
    /\ hist' = [hist EXCEPT !.phase = "applied", !.redone = TRUE]
    /\ UNCHANGED stack

\* Between the command's calls the graph is changed directly: a node is
\* removed (AppState.delete_node).
Interfere ==
    /\ hist.phase = "applied"
    /\ \E node_id \in DOMAIN graph.nodes :
        /\ graph' = remove_node(graph, node_id)
        /\ last' = Call("remove_node", NoExc, RetObj)
    /\ hist' = [hist EXCEPT !.pre = NoneObj, !.post = NoneObj, !.clean = FALSE]
    /\ UNCHANGED <<cmd, stack>>

\* The edges the graph is built from before the command: those with an odd
\* id bidirectional, those with an even id one-way.
BuildEdgeInputs == {e \in EdgeInputs : e.is_bidirectional = (e.id % 2 = 1)}

Build ==
    /\ cmd = NoCmd
    /\ (AddNodeOp \/ RemoveNodeOp \/ AddEdgeFrom(BuildEdgeInputs) \/ RemoveEdgeOp)
    /\ UNCHANGED cmdVars

CmdNext ==
    \/ Build /\ UNCHANGED hierVars
    \/ Apply /\ UNCHANGED hierVars
    \/ Undo /\ UNCHANGED hierVars
    \/ Redo /\ UNCHANGED hierVars
    \/ Interfere /\ UNCHANGED hierVars

\* A graph reached by direct calls, then one command: redo, undo, redo, ...,
\* with direct removals in between.
SpecCmd == Init /\ [][CmdNext]_vars

----------------------------------------------------------------------------
(* Serialization of one SceneGraph *)

\* SceneNode.to_dict / SceneEdge.to_dict: dataclasses.asdict, the fields by name
asdict(obj) == [k \in DOMAIN obj |-> obj[k]]

\* SceneNode.from_dict: cls(**data), which runs __post_init__
SceneNode_from_dict(data) == post_init([k \in DOMAIN data |-> data[k]])

\* SceneEdge.from_dict: cls(**data)
SceneEdge_from_dict(data) == [k \in DOMAIN data |-> data[k]]

\* to_dict with the edge list left empty
to_dict_nodes_only(g) ==
    [id |-> g.id, name |-> g.name, master_prompt |-> g.master_prompt,
     depth_level |-> g.depth_level,
     parent_graph_id |-> g.parent_graph_id, parent_node_id |-> g.parent_node_id,
     nodes |-> [j \in DOMAIN ValueList(g.nodes) |-> asdict(ValueList(g.nodes)[j])],
     edges |-> <<>>,
     rendered_image |-> g.rendered_image]

\* SceneGraph.to_dict: the scalar fields, the nodes and the edges as lists;
\* the adjacency map is not written.
to_dict(g) ==
    [id |-> g.id, name |-> g.name, master_prompt |-> g.master_prompt,
     depth_level |-> g.depth_level,
     parent_graph_id |-> g.parent_graph_id, parent_node_id |-> g.parent_node_id,
     nodes |-> [j \in DOMAIN ValueList(g.nodes) |-> asdict(ValueList(g.nodes)[j])],
     edges |-> [j \in DOMAIN ValueList(g.edges) |-> asdict(ValueList(g.edges)[j])],
     rendered_image |-> g.rendered_image]

\* from_dict with the edges tried before the nodes are added
from_dict_edges_first(data) ==
    LET g0 == [NewGraph(data.id) EXCEPT
                  !.name = data.name,
                  !.master_prompt = data.master_prompt,
                  !.depth_level = data.depth_level,
                  !.parent_graph_id = data.parent_graph_id,
                  !.parent_node_id = data.parent_node_id,
                  !.rendered_image = data.rendered_image]
        r == add_edges_try(g0, [j \in DOMAIN data.edges |-> SceneEdge_from_dict(data.edges[j])])
    IN [r EXCEPT !.graph = add_nodes(@, [j \in DOMAIN data.nodes |->
                                            SceneNode_from_dict(data.nodes[j])])]

\* SceneGraph.from_dict: the nodes are added first, then each edge is tried
\* and an edge that add_edge refuses is skipped.
from_dict(data) ==
    LET g0 == [NewGraph(data.id) EXCEPT
                  !.name = data.name,
                  !.master_prompt = data.master_prompt,
                  !.depth_level = data.depth_level,
                  !.parent_graph_id = data.parent_graph_id,
                  !.parent_node_id = data.parent_node_id,
                  !.rendered_image = data.rendered_image]
        g1 == add_nodes(g0, [j \in DOMAIN data.nodes |-> SceneNode_from_dict(data.nodes[j])])
    IN add_edges_try(g1, [j \in DOMAIN data.edges |-> SceneEdge_from_dict(data.edges[j])])

\* The call and the argument it was given
CallWith(op, exc, ret, arg) == [op |-> op, exc |-> exc, ret |-> ret, arg |-> arg]

ClearOp ==
    /\ graph' = clear(graph)
    /\ last' = Call("clear", NoExc, RetNone)

\* The records from_dict is given: what to_dict wrote for the graph, as it
\* is or with some of the nodes taken out of the node list by hand, so that
\* edges of the record name nodes the record does not list.
DictInputs(g) ==
    {[to_dict(g) EXCEPT !.nodes = SelectSeq(@, LAMBDA n : n.id \in keep)] :
        keep \in SUBSET DOMAIN g.nodes}

\* graph = SceneGraph.from_dict(data), with the record kept for reference
FromDictOp ==
    \E data \in DictInputs(graph) :
        LET r == from_dict(data)
        IN /\ graph' = r.graph
           /\ last' = CallWith("from_dict", r.exc, RetObj, data)

LoadNext ==
    \/ AddNodeOp /\ UNCHANGED <<cmdVars, hierVars>>
    \/ RemoveNodeOp /\ UNCHANGED <<cmdVars, hierVars>>
    \/ AddEdgeFrom(BuildEdgeInputs) /\ UNCHANGED <<cmdVars, hierVars>>
    \/ RemoveEdgeOp /\ UNCHANGED <<cmdVars, hierVars>>
    \/ ClearOp /\ UNCHANGED <<cmdVars, hierVars>>
    \/ FromDictOp /\ UNCHANGED <<cmdVars, hierVars>>

\* A graph changed by direct calls, saved and loaded, or replaced by the
\* graph loaded from a hand-made record.
SpecLoad == Init /\ [][LoadNext]_vars

----------------------------------------------------------------------------
(* Direct calls, loads and one command, in any order *)

\* A command is made at any time and redo() runs for the first time.
OpsApply ==
    /\ cmd = NoCmd
    /\ \E c \in CommandInputs :
        LET r == redo(graph, c)
        IN /\ graph' = r.graph
           /\ cmd' = r.cmd
           /\ last' = Call("redo", r.exc, RetNone)
    /\ hist' = [NoHist EXCEPT !.phase = "applied", !.clean = FALSE]
    /\ UNCHANGED stack

\* graph = SceneGraph.from_dict(data).  A command works on the graph object
\* it was constructed with, so the graph it acts on was loaded before it
\* was made.
OpsLoad ==
    /\ cmd = NoCmd
    /\ \E data \in DictInputs(graph) :
        LET r == from_dict(data)
        IN /\ graph' = r.graph
           /\ last' = Call("from_dict", r.exc, RetObj)

OpsDirect ==
    /\ (AddNodeOp \/ RemoveNodeOp \/ AddEdgeFrom(BuildEdgeInputs) \/ RemoveEdgeOp
            \/ ClearOp \/ OpsLoad)
    /\ UNCHANGED cmdVars

OpsNext ==
    \/ OpsDirect /\ UNCHANGED hierVars
    \/ OpsApply /\ UNCHANGED hierVars
    \/ Undo /\ UNCHANGED hierVars
    \/ Redo /\ UNCHANGED hierVars

\* add_node, remove_node, add_edge, remove_edge, clear and from_dict on one
\* graph, with the redo and undo of one command anywhere among them.
SpecOps == Init /\ [][OpsNext]_vars

----------------------------------------------------------------------------
(* Several commands, undone last-in first-out (QUndoStack's order) *)

MaxStack == 2

\* A command is made and applied on top of those already applied.
Push ==
    /\ cmd = NoCmd
    /\ Len(stack) < MaxStack
    /\ stack # <<>> \/ hist.phase = "none"
    /\ \E c \in CommandInputs :
        LET r == redo(graph, c)
        IN /\ graph' = r.graph
           /\ stack' = Append(stack, r.cmd)
           /\ last' = Call("redo", r.exc, RetNone)
    /\ hist' = IF stack = <<>> THEN [NoHist EXCEPT !.phase = "stack", !.pre = graph]
               ELSE hist
    /\ UNCHANGED cmd

\* The command applied last is undone.
Pop ==
    /\ stack # <<>>
    /\ LET r == undo(graph, stack[Len(stack)])
       IN /\ graph' = r.graph
          /\ last' = Call("undo", r.exc, RetNone)
    /\ stack' = SubSeq(stack, 1, Len(stack) - 1)
    /\ UNCHANGED <<cmd, hist>>

StackBuild ==
    /\ hist.phase = "none"
    /\ Build

StackNext ==
    \/ StackBuild /\ UNCHANGED hierVars
    \/ Push /\ UNCHANGED hierVars
    \/ Pop /\ UNCHANGED hierVars

SpecStack == Init /\ [][StackNext]_vars

----------------------------------------------------------------------------
(* The rendered image of one SceneGraph *)

\* The longest byte string handed to set_rendered_image
MaxBytes == 3

\* Byte strings over three byte values: all bits clear, all bits set, mixed
ByteInputs == UNION {[1..n -> {0, 77, 255}] : n \in 0..MaxBytes}

SetRenderedImageOp ==
    \E image_bytes \in ByteInputs :
        /\ graph' = set_rendered_image(graph, image_bytes)
        /\ last' = CallWith("set_rendered_image", NoExc, RetNone, Some(image_bytes))

\* The value returned is kept in arg.
GetRenderedImageOp ==
    /\ graph' = graph
    /\ last' = CallWith("get_rendered_image", NoExc,
                        IF get_rendered_image(graph) = NoneObj THEN RetNone ELSE RetObj,
                        get_rendered_image(graph))

HasRenderedImageOp ==
    /\ graph' = graph
    /\ last' = Call("has_rendered_image", NoExc,
                    IF has_rendered_image(graph) THEN RetTrue ELSE RetFalse)

ClearRenderedImageOp ==
    /\ graph' = clear_rendered_image(graph)
    /\ last' = Call("clear_rendered_image", NoExc, RetNone)

ImageNext ==
    \/ SetRenderedImageOp /\ UNCHANGED <<cmdVars, hierVars>>
    \/ GetRenderedImageOp /\ UNCHANGED <<cmdVars, hierVars>>
    \/ HasRenderedImageOp /\ UNCHANGED <<cmdVars, hierVars>>
    \/ ClearRenderedImageOp /\ UNCHANGED <<cmdVars, hierVars>>

\* Any sequence of image calls on one graph.
SpecImage == Init /\ [][ImageNext]_vars

----------------------------------------------------------------------------
(* HierarchyManager *)

\* How many times a graph is handed to the manager (set_root and
\* create_child_graph calls).  A generated graph has MaxNodes nodes.
MaxGraphs == 3

GraphIds == 1..MaxGraphs

Diverges == "diverges"

\* The manager's four fields as one value
Manager(gs, root, current, nav) ==
    [graphs |-> gs, root_graph_id |-> root, current_graph_id |-> current,
     navigation_stack |-> nav]

\* What a call leaves behind: the manager, the value returned, the exception
Outcome(h, ret, exc) == [h |-> h, ret |-> ret, exc |-> exc]

\* The id of the k-th node of graph gid: ids are uuid4 strings, distinct
\* across all graphs.
NodeOf(gid, k) == (gid - 1) * MaxNodes + k

HierNodeIds == 1..(MaxGraphs * MaxNodes)

\* A newly generated graph: its nodes were added with add_node, so each
\* carries the graph's id as parent_graph_id.
GeneratedGraph(gid) ==
    add_nodes(NewGraph(gid), [k \in 1..MaxNodes |-> SceneNode(NodeOf(gid, k), "a")])

\* HierarchyManager.add_graph
add_graph(gs, g) == DictSet(gs, g.id, g)

\* HierarchyManager._build_path_to_graph: whether its loop never ends, which
\* happens when following parent_graph_id comes back to a graph already seen.
RECURSIVE path_diverges(_, _, _)
path_diverges(gs, current_id, seen) ==
    IF current_id = None THEN FALSE
    ELSE IF current_id \in seen THEN TRUE
    ELSE IF current_id \in DOMAIN gs
         THEN path_diverges(gs, gs[current_id].parent_graph_id, seen \cup {current_id})
         ELSE FALSE

\* HierarchyManager._build_path_to_graph, when its loop ends
RECURSIVE build_path(_, _, _)
build_path(gs, current_id, path) ==
    IF current_id = None THEN path
    ELSE IF current_id \in DOMAIN gs
         THEN build_path(gs, gs[current_id].parent_graph_id, <<current_id>> \o path)
         ELSE <<current_id>> \o path

_build_path_to_graph(gs, graph_id) == build_path(gs, graph_id, <<>>)

\* set_root that leaves the graph's depth and parent links as they are
set_root_keeping_links(h, g) ==
    Outcome(Manager(add_graph(h.graphs, g), g.id, g.id, <<g.id>>), RetNone, NoExc)

\* HierarchyManager.set_root
set_root(h, g) ==
    LET g1 == [g EXCEPT !.depth_level = 0, !.parent_graph_id = None,
                        !.parent_node_id = None]
    IN Outcome(Manager(add_graph(h.graphs, g1), g1.id, g1.id, <<g1.id>>),
               RetNone, NoExc)

\* node_after with the link written before the parent graph is looked up
node_after_unchecked(h, parent_node, child_graph) ==
    [parent_node EXCEPT !.child_graph_id = child_graph.id]

\* HierarchyManager.create_child_graph: the parent_node object after the call
node_after(h, parent_node, child_graph) ==
    IF parent_node.parent_graph_id \notin DOMAIN h.graphs THEN parent_node
    ELSE [parent_node EXCEPT !.child_graph_id = child_graph.id]

\* HierarchyManager.create_child_graph: the fields written to the child_graph
\* object
child_after(h, parent_node, child_graph) ==
    IF parent_node.parent_graph_id \notin DOMAIN h.graphs THEN child_graph
    ELSE [child_graph EXCEPT
             !.parent_graph_id = h.graphs[parent_node.parent_graph_id].id,
             !.parent_node_id = parent_node.id,
             !.depth_level = h.graphs[parent_node.parent_graph_id].depth_level + 1]

\* HierarchyManager.create_child_graph.  parent_node is the node object the
\* caller holds; attached says that this object is the one stored in the
\* node map of the graph its parent_graph_id names, so that the write to its
\* child_graph_id shows there.  child_graph is the graph object passed in.
create_child_graph(h, parent_node, attached, child_graph) ==
    LET gs == h.graphs
        pgid == parent_node.parent_graph_id
    IN IF pgid \notin DOMAIN gs
       THEN Outcome(h, RetNone, ValueError)
       ELSE
         LET child == child_after(h, parent_node, child_graph)
             \* the child object may be the parent graph itself
             gs1 == IF child.id \in DOMAIN gs THEN DictSet(gs, child.id, child) ELSE gs
             gs2 == IF attached
                    THEN [gs1 EXCEPT ![pgid].nodes[parent_node.id] =
                                        node_after(h, parent_node, child_graph)]
                    ELSE gs1
             child2 == IF child.id = pgid THEN gs2[pgid] ELSE child
         IN Outcome([h EXCEPT !.graphs = add_graph(gs2, child2)], RetNone, NoExc)

\* HierarchyManager.get_parent_graph
get_parent_graph(h, graph_id) ==
    IF graph_id \notin DOMAIN h.graphs THEN NoneObj
    ELSE IF h.graphs[graph_id].parent_graph_id = None THEN NoneObj
    ELSE IF h.graphs[graph_id].parent_graph_id \notin DOMAIN h.graphs THEN NoneObj
    ELSE h.graphs[h.graphs[graph_id].parent_graph_id]

\* HierarchyManager.get_breadcrumb_path: a pair for each id of the navigation
\* stack that is registered.  No graph is given a name here, so the second
\* component is the fallback name, told by the depth level.
get_breadcrumb_path(h) ==
    LET kept == SelectSeq(h.navigation_stack, LAMBDA gid : gid \in DOMAIN h.graphs)
    IN [j \in DOMAIN kept |-> <<h.graphs[kept[j]].id, h.graphs[kept[j]].depth_level>>]

\* navigate_to with the current graph set before the id is looked up
navigate_to_eager(h, graph_id) ==
    IF graph_id \notin DOMAIN h.graphs
    THEN Outcome([h EXCEPT !.current_graph_id = graph_id], RetFalse, NoExc)
    ELSE IF path_diverges(h.graphs, graph_id, {})
         THEN Outcome([h EXCEPT !.current_graph_id = graph_id], RetNone, Diverges)
         ELSE Outcome([h EXCEPT !.current_graph_id = graph_id,
                                !.navigation_stack = _build_path_to_graph(h.graphs, graph_id)],
                      RetTrue, NoExc)

\* navigate_to that also takes the first graph of the path for the root
navigate_to_rerooting(h, graph_id) ==
    IF graph_id \notin DOMAIN h.graphs THEN Outcome(h, RetFalse, NoExc)
    ELSE IF path_diverges(h.graphs, graph_id, {})
         THEN Outcome([h EXCEPT !.current_graph_id = graph_id], RetNone, Diverges)
         ELSE Outcome([h EXCEPT !.current_graph_id = graph_id,
                                !.root_graph_id = _build_path_to_graph(h.graphs, graph_id)[1],
                                !.navigation_stack = _build_path_to_graph(h.graphs, graph_id)],
                      RetTrue, NoExc)

\* HierarchyManager.navigate_to
navigate_to(h, graph_id) ==
    IF graph_id \notin DOMAIN h.graphs THEN Outcome(h, RetFalse, NoExc)
    ELSE IF path_diverges(h.graphs, graph_id, {})
         THEN Outcome([h EXCEPT !.current_graph_id = graph_id], RetNone, Diverges)
         ELSE Outcome([h EXCEPT !.current_graph_id = graph_id,
                                !.navigation_stack = _build_path_to_graph(h.graphs, graph_id)],
                      RetTrue, NoExc)

\* navigate_to_child that takes the node id for a graph id when the current
\* graph has no such node
navigate_to_child_any(h, node_id) ==
    IF h.current_graph_id = None THEN Outcome(h, RetFalse, NoExc)
    ELSE IF h.current_graph_id \notin DOMAIN h.graphs THEN Outcome(h, RetFalse, NoExc)
    ELSE LET node == get_node(h.graphs[h.current_graph_id], node_id)
         IN IF node = NoneObj THEN navigate_to(h, node_id)
            ELSE IF node.child_graph_id = None THEN Outcome(h, RetFalse, NoExc)
            ELSE navigate_to(h, node.child_graph_id)

\* HierarchyManager.navigate_to_child
navigate_to_child(h, node_id) ==
    IF h.current_graph_id = None THEN Outcome(h, RetFalse, NoExc)
    ELSE IF h.current_graph_id \notin DOMAIN h.graphs THEN Outcome(h, RetFalse, NoExc)
    ELSE LET node == get_node(h.graphs[h.current_graph_id], node_id)
         IN IF node = NoneObj THEN Outcome(h, RetFalse, NoExc)
            ELSE IF node.child_graph_id = None THEN Outcome(h, RetFalse, NoExc)
            ELSE navigate_to(h, node.child_graph_id)

\* HierarchyManager.navigate_up
navigate_up(h) ==
    IF h.current_graph_id = None THEN Outcome(h, RetFalse, NoExc)
    ELSE IF h.current_graph_id \notin DOMAIN h.graphs THEN Outcome(h, RetFalse, NoExc)
    ELSE IF h.graphs[h.current_graph_id].parent_graph_id = None
         THEN Outcome(h, RetFalse, NoExc)
         ELSE navigate_to(h, h.graphs[h.current_graph_id].parent_graph_id)

\* HierarchyManager.navigate_to_root
navigate_to_root(h) ==
    IF h.root_graph_id = None THEN Outcome(h, RetFalse, NoExc)
    ELSE navigate_to(h, h.root_graph_id)

\* remove_graph that leaves the parent node's link as it is
remove_graph_keep_link(h, graph_id) ==
    IF graph_id \notin DOMAIN h.graphs THEN Outcome(h, RetFalse, NoExc)
    ELSE
      LET nav == SelectSeq(h.navigation_stack, LAMBDA gid : gid # graph_id)
          cur == IF h.current_graph_id = graph_id THEN h.root_graph_id
                 ELSE h.current_graph_id
      IN Outcome(Manager(DictDel(h.graphs, graph_id), h.root_graph_id, cur, nav),
                 RetTrue, NoExc)

\* HierarchyManager.remove_graph
remove_graph(h, graph_id) ==
    IF graph_id \notin DOMAIN h.graphs THEN Outcome(h, RetFalse, NoExc)
    ELSE
      LET gs == h.graphs
          nav == SelectSeq(h.navigation_stack, LAMBDA gid : gid # graph_id)
          cur == IF h.current_graph_id = graph_id THEN h.root_graph_id
                 ELSE h.current_graph_id
          g == gs[graph_id]
          gs1 == IF /\ g.parent_graph_id # None
                    /\ g.parent_node_id # None
                    /\ g.parent_graph_id \in DOMAIN gs
                    /\ g.parent_node_id \in DOMAIN gs[g.parent_graph_id].nodes
                 THEN [gs EXCEPT ![g.parent_graph_id].nodes[g.parent_node_id].child_graph_id = None]
                 ELSE gs
      IN Outcome(Manager(DictDel(gs1, graph_id), h.root_graph_id, cur, nav),
                 RetTrue, NoExc)

RecursionError == "RecursionError"

\* HierarchyManager.get_child_graphs: the registered graphs, in the order of
\* the registry, whose parent_graph_id is graph_id
get_child_graphs(h, graph_id) ==
    SelectSeq(ValueList(h.graphs), LAMBDA g : g.parent_graph_id = graph_id)

\* The loop of get_all_descendant_graphs over the children still to visit.
\* branch holds the ids of the calls that are open: a child that is among
\* them is visited again and again until the interpreter's recursion limit
\* is hit.
RECURSIVE descend(_, _, _)
descend(h, children, branch) ==
    IF children = <<>> THEN [list |-> <<>>, exc |-> NoExc]
    ELSE LET child == Head(children)
         IN IF child.id \in branch THEN [list |-> <<>>, exc |-> RecursionError]
            ELSE LET below == descend(h, get_child_graphs(h, child.id),
                                      branch \cup {child.id})
                     others == descend(h, Tail(children), branch)
                 IN IF below.exc # NoExc THEN below
                    ELSE IF others.exc # NoExc THEN others
                    ELSE [list |-> <<child>> \o below.list \o others.list,
                          exc |-> NoExc]

\* HierarchyManager.get_all_descendant_graphs
get_all_descendant_graphs(h, graph_id) ==
    descend(h, get_child_graphs(h, graph_id), {graph_id})

\* HierarchyManager.to_dict
HierarchyManager_to_dict(h) ==
    [root_graph_id |-> h.root_graph_id,
     current_graph_id |-> h.current_graph_id,
     graphs |-> [j \in DOMAIN ValueList(h.graphs) |-> to_dict(ValueList(h.graphs)[j])]]

\* The loop of HierarchyManager.from_dict over data["graphs"]
RECURSIVE load_graphs(_, _)
load_graphs(gs, list) ==
    IF list = <<>> THEN gs
    ELSE load_graphs(DictSet(gs, from_dict(Head(list)).graph.id,
                             from_dict(Head(list)).graph),
                     Tail(list))

\* HierarchyManager.from_dict: the graphs are loaded, the two ids are taken
\* from the data, and the navigation stack is built from the current id if
\* there is one.
HierarchyManager_from_dict(data) ==
    LET gs == load_graphs(EmptyDict, data.graphs)
        current == data.current_graph_id
    IN IF current = None
       THEN Outcome(Manager(gs, data.root_graph_id, current, <<>>), RetObj, NoExc)
       ELSE IF path_diverges(gs, current, {})
            THEN Outcome(Manager(gs, data.root_graph_id, current, <<>>),
                         RetNone, Diverges)
            ELSE Outcome(Manager(gs, data.root_graph_id, current,
                                 _build_path_to_graph(gs, current)),
                         RetObj, NoExc)

----------------------------------------------------------------------------
(* Calls on one HierarchyManager *)

ThisManager == Manager(graphs, root_graph_id, current_graph_id, navigation_stack)

\* The call's outcome becomes the manager's state.
Becomes(op, out) ==
    /\ graphs' = out.h.graphs
    /\ root_graph_id' = out.h.root_graph_id
    /\ current_graph_id' = out.h.current_graph_id
    /\ navigation_stack' = out.h.navigation_stack
    /\ last' = Call(op, out.exc, out.ret)

\* The same, with the call's argument kept for reference.
BecomesWith(op, out, arg) ==
    /\ graphs' = out.h.graphs
    /\ root_graph_id' = out.h.root_graph_id
    /\ current_graph_id' = out.h.current_graph_id
    /\ navigation_stack' = out.h.navigation_stack
    /\ last' = CallWith(op, out.exc, out.ret, arg)

\* The arguments of create_child_graph: the two objects before and after
\* the call, and whether the node object is the one its graph stores.
ChildArgs(h, parent_node, attached, child_graph) ==
    [node |-> parent_node, child |-> child_graph, attached |-> attached,
     node_after |-> node_after(h, parent_node, child_graph),
     child_after |-> child_after(h, parent_node, child_graph)]

\* A call whose loop never ends is the last one.
Running == last.exc # Diverges

\* The node objects a caller can pass: the nodes stored in the registered
\* graphs, and a node held outside every graph whose parent_graph_id is
\* unset or names a graph.
AttachedNodes == {graphs[g].nodes[n] : <<g, n>> \in
                    {<<g, n>> \in GraphIds \X HierNodeIds :
                        g \in DOMAIN graphs /\ n \in DOMAIN graphs[g].nodes}}

DetachedNodes ==
    {[SceneNode(MaxGraphs * MaxNodes + 1, "a") EXCEPT !.parent_graph_id = p] :
        p \in {None} \cup GraphIds}

\* generate_graph, new_project: the graph is newly generated
SetRootOp ==
    /\ Running
    /\ made < MaxGraphs
    /\ made' = made + 1
    /\ Becomes("set_root", set_root(ThisManager, GeneratedGraph(made + 1)))

\* set_root with a graph object that is already registered
SetRootAgain ==
    /\ Running
    /\ made < MaxGraphs
    /\ \E c \in DOMAIN graphs :
        /\ made' = made + 1
        /\ Becomes("set_root", set_root(ThisManager, graphs[c]))

\* expand_node: the child graph is newly generated
CreateChildGraphNew ==
    /\ Running
    /\ made < MaxGraphs
    /\ \E parent_node \in AttachedNodes \cup DetachedNodes :
        LET out == create_child_graph(ThisManager, parent_node,
                                      parent_node \in AttachedNodes,
                                      GeneratedGraph(made + 1))
        IN /\ made' = made + 1
           /\ BecomesWith("create_child_graph", out,
                          ChildArgs(ThisManager, parent_node,
                                    parent_node \in AttachedNodes,
                                    GeneratedGraph(made + 1)))

\* create_child_graph with a graph object that is already registered
CreateChildGraphAgain ==
    /\ Running
    /\ made < MaxGraphs
    /\ \E parent_node \in AttachedNodes \cup DetachedNodes, c \in DOMAIN graphs :
        LET out == create_child_graph(ThisManager, parent_node,
                                      parent_node \in AttachedNodes, graphs[c])
        IN /\ made' = made + 1
           /\ BecomesWith("create_child_graph", out,
                          ChildArgs(ThisManager, parent_node,
                                    parent_node \in AttachedNodes, graphs[c]))

NavigateToOp ==
    /\ Running
    /\ \E graph_id \in GraphIds :
        BecomesWith("navigate_to", navigate_to(ThisManager, graph_id), graph_id)
    /\ made' = made

NavigateToChildOp ==
    /\ Running
    /\ \E node_id \in HierNodeIds :
        BecomesWith("navigate_to_child", navigate_to_child(ThisManager, node_id), node_id)
    /\ made' = made

NavigateUpOp ==
    /\ Running
    /\ Becomes("navigate_up", navigate_up(ThisManager))
    /\ made' = made

NavigateToRootOp ==
    /\ Running
    /\ Becomes("navigate_to_root", navigate_to_root(ThisManager))
    /\ made' = made

RemoveGraphOp ==
    /\ Running
    /\ \E graph_id \in GraphIds :
        BecomesWith("remove_graph", remove_graph(ThisManager, graph_id), graph_id)
    /\ made' = made

HierNext ==
    \/ SetRootOp /\ UNCHANGED <<graph, cmdVars>>
    \/ SetRootAgain /\ UNCHANGED <<graph, cmdVars>>
    \/ CreateChildGraphNew /\ UNCHANGED <<graph, cmdVars>>
    \/ CreateChildGraphAgain /\ UNCHANGED <<graph, cmdVars>>
    \/ NavigateToOp /\ UNCHANGED <<graph, cmdVars>>
    \/ NavigateToChildOp /\ UNCHANGED <<graph, cmdVars>>
    \/ NavigateUpOp /\ UNCHANGED <<graph, cmdVars>>
    \/ NavigateToRootOp /\ UNCHANGED <<graph, cmdVars>>
    \/ RemoveGraphOp /\ UNCHANGED <<graph, cmdVars>>

\* Any sequence of calls on one HierarchyManager.
SpecHier == Init /\ [][HierNext]_vars

----------------------------------------------------------------------------
(* AppState: src/core/state/app_state.py.  Its hierarchy is the manager   *)
(* above, its undo_stack is stack.  An llm_provider is always configured:  *)
(* the constructor and set_api_key both set one.                           *)

TypeError == "TypeError"

\* What the provider's generate_graph or modify_graph gives: it raises, or
\* it returns the lists parsed from the model's JSON as they are.  A node
\* entry carries a name and an x that is a number or null; an edge entry
\* names its source and its target.
MaxResponseEdges == 1

NodeData == [name : {"a"}, x : {Some(1), NoneObj}]
EdgeData == [source : Names, target : Names]

Raises == [raises |-> TRUE, nodes |-> <<>>, edges |-> <<>>]

ResponseInputs ==
    {Raises} \cup
    [raises : {FALSE},
     nodes : UNION {[1..n -> NodeData] : n \in 0..MaxNodes},
     edges : UNION {[1..n -> EdgeData] : n \in 0..MaxResponseEdges}]

\* The ids uuid4 gives to the edges of the gen-th translated response
EdgeOf(gen, k) == (gen - 1) * MaxResponseEdges + k

\* The loop over response.nodes with the first node of a name kept in
\* name_to_id
RECURSIVE translate_nodes_first_wins(_, _, _, _, _)
translate_nodes_first_wins(g, name_to_id, nodes, gen, k) ==
    IF k > Len(nodes) THEN [graph |-> g, name_to_id |-> name_to_id, exc |-> NoExc]
    ELSE IF nodes[k].x = NoneObj
         THEN [graph |-> g, name_to_id |-> name_to_id, exc |-> TypeError]
         ELSE LET node == SceneNode(NodeOf(gen, k), nodes[k].name)
              IN translate_nodes_first_wins(
                     add_node(g, node),
                     IF node.name \in DOMAIN name_to_id THEN name_to_id
                     ELSE DictSet(name_to_id, node.name, node.id),
                     nodes, gen, k + 1)

\* The loop over response.nodes.  x * LAYOUT_SCALE raises TypeError when x
\* is null; the nodes added before stay in the graph.
RECURSIVE translate_nodes(_, _, _, _, _)
translate_nodes(g, name_to_id, nodes, gen, k) ==
    IF k > Len(nodes) THEN [graph |-> g, name_to_id |-> name_to_id, exc |-> NoExc]
    ELSE IF nodes[k].x = NoneObj
         THEN [graph |-> g, name_to_id |-> name_to_id, exc |-> TypeError]
         ELSE LET node == SceneNode(NodeOf(gen, k), nodes[k].name)
              IN translate_nodes(add_node(g, node),
                                 DictSet(name_to_id, node.name, node.id),
                                 nodes, gen, k + 1)

\* The loop over response.edges: an edge is added when both names are keys
\* of name_to_id.
RECURSIVE translate_edges(_, _, _, _, _)
translate_edges(g, name_to_id, edges, gen, k) ==
    IF k > Len(edges) THEN g
    ELSE IF edges[k].source \in DOMAIN name_to_id /\ edges[k].target \in DOMAIN name_to_id
         THEN translate_edges(
                  add_edge(g, SceneEdge(EdgeOf(gen, k), name_to_id[edges[k].source],
                                        name_to_id[edges[k].target],
                                        "connected_to", TRUE)),
                  name_to_id, edges, gen, k + 1)
         ELSE translate_edges(g, name_to_id, edges, gen, k + 1)

\* The body shared by generate_graph, modify_graph and expand_node: the
\* response is written into graph g; the graph as the exception leaves it
\* is returned with the exception.
translate(g, response, gen) ==
    LET r == translate_nodes(g, EmptyDict, response.nodes, gen, 1)
    IN IF r.exc # NoExc THEN [graph |-> r.graph, exc |-> r.exc]
       ELSE [graph |-> translate_edges(r.graph, r.name_to_id, response.edges, gen, 1),
             exc |-> NoExc]

\* HierarchyManager.current_graph
current_graph(h) ==
    IF h.current_graph_id = None THEN NoneObj
    ELSE IF h.current_graph_id \in DOMAIN h.graphs THEN h.graphs[h.current_graph_id]
    ELSE NoneObj

\* What a handler leaves: the manager, the signals emitted in order, and the
\* exception if the handler does not return.
Handled(h, signals, exc) == [h |-> h, signals |-> signals, exc |-> exc]

\* AppState.new_project
new_project(h, gen) ==
    Handled(set_root(Manager(EmptyDict, None, None, <<>>), NewGraph(gen)).h,
            <<"graph_changed", "current_graph_changed">>, NoExc)

\* AppState.generate_graph
generate_graph(h, response, gen) ==
    IF response.raises
    THEN Handled(h, <<"loading_started", "loading_finished", "error_occurred">>, NoExc)
    ELSE LET r == translate(NewGraph(gen), response, gen)
         IN IF r.exc # NoExc
            THEN Handled(h, <<"loading_started", "loading_finished", "error_occurred">>,
                         NoExc)
            ELSE Handled(set_root(h, r.graph).h,
                         <<"loading_started", "graph_changed", "current_graph_changed",
                           "loading_finished">>, NoExc)

\* AppState.modify_graph: the current graph object is cleared and filled in
\* place.
modify_graph(h, response, gen) ==
    IF current_graph(h) = NoneObj THEN Handled(h, <<"error_occurred">>, NoExc)
    ELSE IF response.raises
    THEN Handled(h, <<"loading_started", "loading_finished", "error_occurred">>, NoExc)
    ELSE LET r == translate(clear(current_graph(h)), response, gen)
             h1 == [h EXCEPT !.graphs[h.current_graph_id] = r.graph]
         IN IF r.exc # NoExc
            THEN Handled(h1, <<"loading_started", "loading_finished", "error_occurred">>,
                         NoExc)
            ELSE Handled(h1, <<"loading_started", "graph_changed", "loading_finished">>,
                         NoExc)

\* AppState.navigate_to_graph
navigate_to_graph(h, graph_id) ==
    LET out == navigate_to(h, graph_id)
    IN Handled(out.h,
               IF out.ret = RetTrue THEN <<"graph_changed", "current_graph_changed">>
               ELSE <<>>,
               out.exc)

\* AppState.navigate_up
app_navigate_up(h) ==
    LET out == navigate_up(h)
    IN Handled(out.h,
               IF out.ret = RetTrue THEN <<"graph_changed", "current_graph_changed">>
               ELSE <<>>,
               out.exc)

\* AppState.navigate_to_root
app_navigate_to_root(h) ==
    LET out == navigate_to_root(h)
    IN Handled(out.h,
               IF out.ret = RetTrue THEN <<"graph_changed", "current_graph_changed">>
               ELSE <<>>,
               out.exc)

\* expand_node with the child graph registered and linked before the
\* provider's response is translated into it
expand_node_linking_first(h, node_id, response, gen) ==
    IF current_graph(h) = NoneObj THEN Handled(h, <<>>, NoExc)
    ELSE LET node == get_node(current_graph(h), node_id)
         IN IF node = NoneObj THEN Handled(h, <<>>, NoExc)
            ELSE IF ~node.is_expandable THEN Handled(h, <<>>, NoExc)
            ELSE IF response.raises
            THEN Handled(h, <<"loading_started", "loading_finished", "error_occurred">>,
                         NoExc)
            ELSE LET made_child == create_child_graph(h, node, TRUE, NewGraph(gen))
                     r == translate(made_child.h.graphs[gen], response, gen)
                 IN IF r.exc # NoExc
                    THEN Handled([made_child.h EXCEPT !.graphs[gen] = r.graph],
                                 <<"loading_started", "loading_finished",
                                   "error_occurred">>, NoExc)
                    ELSE Handled(navigate_to([made_child.h EXCEPT !.graphs[gen] = r.graph],
                                             gen).h,
                                 <<"loading_started", "graph_changed",
                                   "current_graph_changed", "loading_finished">>, NoExc)

\* AppState.expand_node from the test of is_expandable on: the node has no
\* child graph.
expand_node_fresh(h, node_id, response, gen) ==
    IF current_graph(h) = NoneObj THEN Handled(h, <<>>, NoExc)
    ELSE LET node == get_node(current_graph(h), node_id)
         IN IF node = NoneObj THEN Handled(h, <<>>, NoExc)
            ELSE IF ~node.is_expandable THEN Handled(h, <<>>, NoExc)
            ELSE IF response.raises
            THEN Handled(h, <<"loading_started", "loading_finished", "error_occurred">>,
                         NoExc)
            ELSE LET r == translate(NewGraph(gen), response, gen)
                 IN IF r.exc # NoExc
                    THEN Handled(h, <<"loading_started", "loading_finished",
                                      "error_occurred">>, NoExc)
                    ELSE LET made_child == create_child_graph(h, node, TRUE, r.graph)
                         IN IF made_child.exc # NoExc
                            THEN Handled(made_child.h,
                                         <<"loading_started", "loading_finished",
                                           "error_occurred">>, NoExc)
                            ELSE Handled(navigate_to(made_child.h, r.graph.id).h,
                                         <<"loading_started", "graph_changed",
                                           "current_graph_changed", "loading_finished">>,
                                         navigate_to(made_child.h, r.graph.id).exc)

\* AppState.expand_node
expand_node(h, node_id, response, gen) ==
    IF current_graph(h) = NoneObj THEN Handled(h, <<>>, NoExc)
    ELSE LET node == get_node(current_graph(h), node_id)
         IN IF node = NoneObj THEN Handled(h, <<>>, NoExc)
            ELSE IF node.child_graph_id # None
            THEN navigate_to_graph(h, node.child_graph_id)
            ELSE expand_node_fresh(h, node_id, response, gen)

OSError == "OSError"
AttributeError == "AttributeError"

\* A project file: one that cannot be opened or parsed, or a parsed document
Unreadable == [readable |-> FALSE, data |-> NoneObj]
Document(data) == [readable |-> TRUE, data |-> data]

\* The loop of HierarchyManager.from_dict over data["graphs"] when an entry
\* may be null: SceneGraph.from_dict(None) raises AttributeError, and the
\* graphs before the entry have been loaded.
RECURSIVE load_graphs_try(_, _)
load_graphs_try(gs, list) ==
    IF list = <<>> THEN [graphs |-> gs, exc |-> NoExc]
    ELSE IF Head(list) = NoneObj THEN [graphs |-> gs, exc |-> AttributeError]
    ELSE load_graphs_try(DictSet(gs, from_dict(Head(list)).graph.id,
                                 from_dict(Head(list)).graph),
                         Tail(list))

\* load_project with the graphs loaded into the manager's own registry
load_project_in_place(h, file) ==
    IF ~file.readable THEN Outcome(h, RetNone, OSError)
    ELSE LET r == load_graphs_try(EmptyDict, file.data.graphs)
         IN IF r.exc # NoExc
            THEN Outcome([h EXCEPT !.graphs = r.graphs], RetNone, r.exc)
            ELSE Outcome(HierarchyManager_from_dict(file.data).h, RetNone,
                         HierarchyManager_from_dict(file.data).exc)

\* HierarchyManager.load_project: open() and json.load, then from_dict on a
\* manager of its own, then the four fields are taken from it.
load_project(h, file) ==
    IF ~file.readable THEN Outcome(h, RetNone, OSError)
    ELSE IF load_graphs_try(EmptyDict, file.data.graphs).exc # NoExc
    THEN Outcome(h, RetNone, load_graphs_try(EmptyDict, file.data.graphs).exc)
    ELSE LET loaded == HierarchyManager_from_dict(file.data)
         IN IF loaded.exc # NoExc THEN Outcome(h, RetNone, loaded.exc)
            ELSE Outcome(loaded.h, RetNone, NoExc)

\* AppState.load_project.  When the loop of _build_path_to_graph does not
\* end, loading_started is the only signal and the call does not return.
app_load_project(h, file) ==
    LET out == load_project(h, file)
    IN IF out.exc = Diverges THEN Handled(out.h, <<"loading_started">>, Diverges)
       ELSE IF out.exc # NoExc
       THEN Handled(out.h, <<"loading_started", "loading_finished", "error_occurred">>,
                    NoExc)
       ELSE Handled(out.h,
                    <<"loading_started", "graph_changed">>
                    \o (IF current_graph(out.h) # NoneObj
                        THEN <<"current_graph_changed">> ELSE <<>>)
                    \o <<"loading_finished">>, NoExc)

\* What the image generator does: it raises, or it returns Optional[bytes]
Generated(image_bytes) == [raises |-> FALSE, image_bytes |-> image_bytes]
ImageRaises == [raises |-> TRUE, image_bytes |-> NoneObj]

\* AppState.render_scene of the current graph, with the canvas attached
render_scene(h, image) ==
    IF current_graph(h) = NoneObj THEN Handled(h, <<"error_occurred">>, NoExc)
    ELSE IF image.raises
    THEN Handled(h, <<"loading_started", "loading_finished", "error_occurred">>, NoExc)
    ELSE IF Truthy(image.image_bytes)
    THEN Handled([h EXCEPT !.graphs[h.current_graph_id] =
                               set_rendered_image(@, image.image_bytes[1])],
                 <<"loading_started", "image_rendered", "graph_changed",
                   "loading_finished">>, NoExc)
    ELSE Handled(h, <<"loading_started", "loading_finished", "error_occurred">>, NoExc)

\* AppState.update_node
app_update_node(h, node_id, kwargs) ==
    IF current_graph(h) = NoneObj THEN Handled(h, <<>>, NoExc)
    ELSE Handled([h EXCEPT !.graphs[h.current_graph_id] = update_node(@, node_id, kwargs)],
                 <<"graph_changed">>, NoExc)

\* AppState.delete_node (no node is selected)
delete_node(h, node_id) ==
    IF current_graph(h) = NoneObj THEN Handled(h, <<>>, NoExc)
    ELSE Handled([h EXCEPT !.graphs[h.current_graph_id] = remove_node(@, node_id)],
                 <<"graph_changed">>, NoExc)

----------------------------------------------------------------------------
(* Calls on one AppState *)

\* How many times a graph is filled: new_project, and every response of the
\* provider that is translated
MaxResponses == 2

\* The handler called last, with its argument and the signals it emitted
Emitted(op, out, arg) ==
    [op |-> op, exc |-> out.exc, ret |-> RetNone, signals |-> out.signals, arg |-> arg]

\* The handler's outcome becomes the state of the AppState's hierarchy.
Handles(op, out, arg) ==
    /\ graphs' = out.h.graphs
    /\ root_graph_id' = out.h.root_graph_id
    /\ current_graph_id' = out.h.current_graph_id
    /\ navigation_stack' = out.h.navigation_stack
    /\ last' = Emitted(op, out, arg)

\* What the provider can answer: once MaxResponses graphs have been filled
\* it only raises.
Responses == IF made < MaxResponses THEN ResponseInputs ELSE {Raises}

\* The **kwargs of update_node: what the node inspector's check box passes
AppValues == {[is_expandable |-> FALSE]}

NewProjectOp ==
    /\ Running
    /\ made < MaxResponses
    /\ made' = made + 1
    /\ Handles("new_project", new_project(ThisManager, made + 1), None)
    /\ stack' = stack

GenerateGraphOp ==
    /\ Running
    /\ \E response \in Responses :
        /\ made' = IF response.raises THEN made ELSE made + 1
        /\ Handles("generate_graph", generate_graph(ThisManager, response, made + 1),
                   None)
    /\ stack' = stack

ModifyGraphOp ==
    /\ Running
    /\ \E response \in Responses :
        LET out == modify_graph(ThisManager, response, made + 1)
        IN /\ made' = IF response.raises THEN made ELSE made + 1
           /\ Handles("modify_graph", out, None)
    /\ stack' = stack

ExpandNodeOp ==
    /\ Running
    /\ \E node_id \in HierNodeIds, response \in Responses :
        /\ made' = IF response.raises THEN made ELSE made + 1
        /\ Handles("expand_node", expand_node(ThisManager, node_id, response, made + 1),
                   node_id)
    /\ stack' = stack

UpdateNodeOp ==
    /\ Running
    /\ \E node_id \in HierNodeIds, kwargs \in AppValues :
        LET out == app_update_node(ThisManager, node_id, kwargs)
        IN /\ Handles("update_node", out, None)
    /\ UNCHANGED <<made, stack>>

DeleteNodeOp ==
    /\ Running
    /\ \E node_id \in HierNodeIds :
        LET out == delete_node(ThisManager, node_id)
        IN /\ Handles("delete_node", out, None)
    /\ UNCHANGED <<made, stack>>

NavigateToGraphOp ==
    /\ Running
    /\ \E graph_id \in GraphIds :
        Handles("navigate_to_graph", navigate_to_graph(ThisManager, graph_id), None)
    /\ UNCHANGED <<made, stack>>

AppNavigateUpOp ==
    /\ Running
    /\ Handles("navigate_up", app_navigate_up(ThisManager), None)
    /\ UNCHANGED <<made, stack>>

AppNavigateToRootOp ==
    /\ Running
    /\ Handles("navigate_to_root", app_navigate_to_root(ThisManager), None)
    /\ UNCHANGED <<made, stack>>

\* AppState.undo: QUndoStack.undo() undoes the command on top of the stack,
\* if there is one; then graph_changed is emitted.
AppUndoOp ==
    /\ Running
    /\ IF stack = <<>>
       THEN /\ Handles("undo", Handled(ThisManager, <<"graph_changed">>, NoExc), None)
            /\ stack' = stack
       ELSE /\ Handles("undo",
                       Handled([ThisManager EXCEPT !.graphs[current_graph_id] =
                                   undo(@, stack[Len(stack)]).graph],
                               <<"graph_changed">>, NoExc),
                       None)
            /\ stack' = SubSeq(stack, 1, Len(stack) - 1)
    /\ made' = made

\* AppState.redo: nothing was undone, so QUndoStack.redo() does nothing.
AppRedoOp ==
    /\ Running
    /\ Handles("redo", Handled(ThisManager, <<"graph_changed">>, NoExc), None)
    /\ UNCHANGED <<made, stack>>

\* A project saved earlier: one root graph of MaxNodes nodes
ProjectFile(gen) ==
    HierarchyManager_to_dict(set_root(Manager(EmptyDict, None, None, <<>>),
                                      GeneratedGraph(gen)).h)

\* A project saved by a manager whose root was made its own child graph
SelfParentFile(gen) ==
    LET h == set_root(Manager(EmptyDict, None, None, <<>>), GeneratedGraph(gen)).h
    IN HierarchyManager_to_dict(
           create_child_graph(h, h.graphs[gen].nodes[NodeOf(gen, 1)], TRUE,
                              h.graphs[gen]).h)

\* The files load_project is given: one that cannot be read, a saved
\* project, a document with a null among the graphs, and a project whose
\* root is its own parent.  Once MaxResponses graphs have been filled only
\* the files that do not load are left.
FileInputs ==
    {Unreadable,
     Document([ProjectFile(made + 1) EXCEPT !.graphs = Append(@, NoneObj)]),
     Document(SelfParentFile(made + 1))}
    \cup (IF made < MaxResponses THEN {Document(ProjectFile(made + 1))} ELSE {})

\* What generate_scene_image gives: an error, None, no bytes, one byte
ImageInputs == {ImageRaises, Generated(NoneObj), Generated(Some(<<>>)),
                Generated(Some(<<77>>))}

LoadProjectOp ==
    /\ Running
    /\ \E file \in FileInputs :
        LET out == app_load_project(ThisManager, file)
        IN /\ made' = IF InList(out.signals, "error_occurred") THEN made ELSE made + 1
           /\ Handles("load_project", out, None)
    /\ stack' = stack

RenderSceneOp ==
    /\ Running
    /\ \E image \in ImageInputs :
        Handles("render_scene", render_scene(ThisManager, image), None)
    /\ UNCHANGED <<made, stack>>

AppNext ==
    \/ NewProjectOp /\ UNCHANGED <<graph, cmd, hist>>
    \/ GenerateGraphOp /\ UNCHANGED <<graph, cmd, hist>>
    \/ ModifyGraphOp /\ UNCHANGED <<graph, cmd, hist>>
    \/ ExpandNodeOp /\ UNCHANGED <<graph, cmd, hist>>
    \/ UpdateNodeOp /\ UNCHANGED <<graph, cmd, hist>>
    \/ DeleteNodeOp /\ UNCHANGED <<graph, cmd, hist>>
    \/ NavigateToGraphOp /\ UNCHANGED <<graph, cmd, hist>>
    \/ AppNavigateUpOp /\ UNCHANGED <<graph, cmd, hist>>
    \/ AppNavigateToRootOp /\ UNCHANGED <<graph, cmd, hist>>
    \/ AppUndoOp /\ UNCHANGED <<graph, cmd, hist>>
    \/ AppRedoOp /\ UNCHANGED <<graph, cmd, hist>>

\* Any sequence of handler calls on one AppState.
SpecApp == Init /\ [][AppNext]_vars

LoadingNext ==
    \/ NewProjectOp /\ UNCHANGED <<graph, cmd, hist>>
    \/ LoadProjectOp /\ UNCHANGED <<graph, cmd, hist>>
    \/ GenerateGraphOp /\ UNCHANGED <<graph, cmd, hist>>
    \/ ModifyGraphOp /\ UNCHANGED <<graph, cmd, hist>>
    \/ RenderSceneOp /\ UNCHANGED <<graph, cmd, hist>>
    \/ ExpandNodeOp /\ UNCHANGED <<graph, cmd, hist>>
    \/ AppNavigateUpOp /\ UNCHANGED <<graph, cmd, hist>>

\* The handlers that emit loading_started, on a new project or on none, with
\* navigate_up between them.
SpecLoading == Init /\ [][LoadingNext]_vars

----------------------------------------------------------------------------
----------------------------------------------------------------------------
(* The translation of a generation result on its own *)

\* How many results are translated
MaxTranslations == 2

\* Results whose nodes carry either name
NamedNodeData == [name : Names, x : {Some(1), NoneObj}]

TranslateInputs ==
    [raises : {FALSE},
     nodes : UNION {[1..n -> NamedNodeData] : n \in 0..MaxNodes},
     edges : UNION {[1..n -> EdgeData] : n \in 0..MaxResponseEdges}]

\* generate_graph and expand_node: the result is written into a new graph
TranslateNew ==
    /\ made < MaxTranslations
    /\ \E response \in TranslateInputs :
        LET r == translate(NewGraph(made + 1), response, made + 1)
        IN /\ graph' = r.graph
           /\ last' = CallWith("translate", r.exc, RetNone, response)
    /\ made' = made + 1

\* modify_graph: the graph is cleared and the result is written into it
TranslateInPlace ==
    /\ made < MaxTranslations
    /\ \E response \in TranslateInputs :
        LET r == translate(clear(graph), response, made + 1)
        IN /\ graph' = r.graph
           /\ last' = CallWith("translate", r.exc, RetNone, response)
    /\ made' = made + 1

TranslateNext ==
    \/ TranslateNew /\ UNCHANGED <<cmdVars, graphs, root_graph_id, current_graph_id,
                                   navigation_stack>>
    \/ TranslateInPlace /\ UNCHANGED <<cmdVars, graphs, root_graph_id,
                                       current_graph_id, navigation_stack>>

SpecTranslate == Init /\ [][TranslateNext]_vars

----------------------------------------------------------------------------
(* The scalar fields of a graph under clear and the commands *)

\* A graph as expand_node makes it: named after the node, with a prompt, one
\* level down, linked to the node it expands
ChildGraph ==
    [NewGraph(1) EXCEPT !.name = "a", !.master_prompt = "a", !.depth_level = 1,
                        !.parent_graph_id = 2, !.parent_node_id = NodeOf(2, 1)]

ScalarInit ==
    /\ graph = ChildGraph
    /\ last = NoCall
    /\ CmdIdle
    /\ HierIdle

\* render_scene stores an image of one byte in the graph
StoreImageOp ==
    /\ graph' = set_rendered_image(graph, <<77>>)
    /\ last' = Call("set_rendered_image", NoExc, RetNone)
    /\ UNCHANGED cmdVars

ScalarNext ==
    \/ OpsDirect /\ UNCHANGED hierVars
    \/ StoreImageOp /\ UNCHANGED hierVars
    \/ OpsApply /\ UNCHANGED hierVars
    \/ Undo /\ UNCHANGED hierVars
    \/ Redo /\ UNCHANGED hierVars

\* The direct calls, clear and set_rendered_image on a child graph, with the
\* redo and undo of one command anywhere among them.
SpecScalars == ScalarInit /\ [][ScalarNext]_vars

(* What the graph's maps say *)

\* The neighbours of n the edge map implies: the targets of the edges that
\* leave n and the sources of the bidirectional edges that reach it.
Neighbours(g, n) ==
    {g.edges[k].target_id : k \in {j \in DOMAIN g.edges : g.edges[j].source_id = n}}
    \cup
    {g.edges[k].source_id : k \in {j \in DOMAIN g.edges :
        g.edges[j].is_bidirectional /\ g.edges[j].target_id = n}}

\* Both graphs hold the same adjacency keys and, per key, the same set of ids.
SameAdjacency(a, b) ==
    /\ DOMAIN a = DOMAIN b
    /\ \A n \in DOMAIN a : ListSet(a[n]) = ListSet(b[n])

\* The same node map, edge map and adjacency (lists compared as sets).
SameGraph(g, h) ==
    /\ g.nodes = h.nodes
    /\ g.edges = h.edges
    /\ SameAdjacency(g.adjacency, h.adjacency)

\* Every edge has both endpoints in the node map.
NoDanglingEdge(g) ==
    \A k \in DOMAIN g.edges :
        g.edges[k].source_id \in DOMAIN g.nodes /\ g.edges[k].target_id \in DOMAIN g.nodes

NodeFields == DOMAIN SceneNode(None, "a")

----------------------------------------------------------------------------
(* Claims *)

\* C1: in every state reached by add_node, remove_node, add_edge and
\* remove_edge, the ids in adjacency[n] are exactly the neighbours of n the
\* edge map implies, for every node n.
C1_AdjacencyMatchesEdges ==
    \A n \in DOMAIN graph.nodes :
        /\ n \in DOMAIN graph.adjacency
        /\ ListSet(graph.adjacency[n]) = Neighbours(graph, n)

\* C10: an add_edge call either raises ValueError and leaves the node, edge
\* and adjacency maps as they were, or adds one edge whose source and target
\* are both keys of the node map: with a missing endpoint it always raises.
C10_AddEdgeInvalidReference ==
    [][ last'.op = "add_edge" =>
          /\ last'.exc = ValueError => graph' = graph
          /\ last'.exc = NoExc =>
                \E k \in DOMAIN graph'.edges \ DOMAIN graph.edges :
                    /\ graph'.edges[k].source_id \in DOMAIN graph.nodes
                    /\ graph'.edges[k].target_id \in DOMAIN graph.nodes
                    /\ graph'.nodes = graph.nodes
                    /\ DictDel(graph'.edges, k) = graph.edges ]_vars

\* C10 witness: add_edge has just raised on a graph that holds nodes and an edge.
C10_Witness ==
    /\ last.op = "add_edge"
    /\ last.exc = ValueError
    /\ DOMAIN graph.nodes # {}
    /\ DOMAIN graph.edges # {}

\* The command under test ran redo() once and then undo(), with no other
\* call on the graph in between.
FirstUndone == hist.phase = "undone" /\ hist.clean /\ ~hist.redone

\* C3: for a node present in the graph, RemoveNodeCommand.redo() then undo()
\* restores the node, the edges that touched it and every adjacency list.
C3_RemoveNodeUndoRestores ==
    (/\ cmd.kind = "RemoveNode"
     /\ FirstUndone
     /\ cmd.node_id \in DOMAIN hist.pre.nodes)
    => SameGraph(graph, hist.pre)

\* the node map a list of nodes gives, and the edges of a list whose
\* endpoints are both among those nodes
NodeMapOf(nodes) == [i \in {nodes[j].id : j \in DOMAIN nodes} |->
                        LET j == CHOOSE j \in DOMAIN nodes :
                                    nodes[j].id = i /\ \A m \in DOMAIN nodes :
                                        nodes[m].id = i => m <= j
                        IN nodes[j]]
ResolvedEdges(nodes, edges) ==
    {edges[j] : j \in {m \in DOMAIN edges :
        /\ edges[m].source_id \in DOMAIN NodeMapOf(nodes)
        /\ edges[m].target_id \in DOMAIN NodeMapOf(nodes)}}

\* C4: ReplaceGraphCommand.redo() leaves exactly the new nodes and the new
\* edges whose endpoints are both new nodes; undo() then restores the prior
\* node map, edge map and adjacency.
C4_ReplaceGraphRedoUndo ==
    (cmd.kind = "ReplaceGraph" /\ hist.clean /\ ~hist.redone) =>
        /\ hist.phase = "applied" =>
              /\ DOMAIN graph.nodes = DOMAIN NodeMapOf(cmd.new_nodes)
              /\ \A i \in DOMAIN graph.nodes :
                    graph.nodes[i] = [NodeMapOf(cmd.new_nodes)[i]
                                        EXCEPT !.parent_graph_id = graph.id]
              /\ {graph.edges[k] : k \in DOMAIN graph.edges}
                    = ResolvedEdges(cmd.new_nodes, cmd.new_edges)
        /\ hist.phase = "undone" => SameGraph(graph, hist.pre)

\* C5: AddNodeCommand.redo() then undo() restores the node map, edge map and
\* adjacency, whether or not the node's id was already in the graph.
C5_AddNodeUndoRestores ==
    (cmd.kind = "AddNode" /\ FirstUndone) => SameGraph(graph, hist.pre)

\* C6: ModifyNodeCommand.redo() then undo() leaves every field of every node
\* at its value before the redo (the fields the command names are written
\* back, nothing else is touched), and neither call gives a node a field it
\* did not have.
C6_ModifyNodeRedoUndo ==
    cmd.kind = "ModifyNode" =>
        /\ (hist.phase = "undone" /\ hist.clean) => graph = hist.pre
        /\ \A i \in DOMAIN graph.nodes : DOMAIN graph.nodes[i] = NodeFields

\* C6 witness: a command naming a field the node has and one it does not
\* has been redone and undone on a node of the graph, and the redo did
\* change the named field.
C6_Witness ==
    /\ cmd.kind = "ModifyNode"
    /\ hist.phase = "undone"
    /\ hist.clean
    /\ cmd.node_id \in DOMAIN graph.nodes
    /\ DOMAIN cmd.new_values = {"name", "nosuch"}
    /\ hist.post.nodes[cmd.node_id].name # hist.pre.nodes[cmd.node_id].name

\* C8: no redo() or undo() raises, whatever was done to the graph since the
\* command was applied; and RemoveNodeCommand.undo() puts back the captured
\* node and exactly the captured edges whose endpoints are both present,
\* so that no edge is left with a missing endpoint.
C8_UndoRedoNeverRaise ==
    /\ [](last.op \in {"redo", "undo"} => last.exc = NoExc)
    /\ [][ (cmd.kind = "RemoveNode" /\ hist.phase = "applied"
                /\ hist'.phase = "undone" /\ cmd.removed_node # NoneObj) =>
             LET present == DOMAIN graph.nodes \cup {cmd.removed_node.id}
                 kept == {cmd.removed_edges[j] : j \in
                            {m \in DOMAIN cmd.removed_edges :
                                /\ cmd.removed_edges[m].source_id \in present
                                /\ cmd.removed_edges[m].target_id \in present}}
             IN /\ graph'.nodes = DictSet(graph.nodes, cmd.removed_node.id,
                                          cmd.removed_node)
                /\ {graph'.edges[k] : k \in DOMAIN graph'.edges}
                      = {graph.edges[k] : k \in DOMAIN graph.edges} \cup kept
                /\ NoDanglingEdge(graph') ]_vars

\* C8 witness: a RemoveNodeCommand was undone after a neighbour of its node
\* had been removed directly: the node is back, a captured edge is not.
C8_Witness ==
    /\ cmd.kind = "RemoveNode"
    /\ hist.phase = "undone"
    /\ ~hist.clean
    /\ last.op = "undo"
    /\ cmd.removed_node # NoneObj
    /\ cmd.removed_node.id \in DOMAIN graph.nodes
    /\ \E j \in DOMAIN cmd.removed_edges :
          cmd.removed_edges[j].id \notin DOMAIN graph.edges

\* C9: apply; undo; redo leaves the graph as apply alone left it, and a
\* further undo restores the graph of before the apply.
C9_RedoAfterUndo ==
    (hist.redone /\ hist.clean) =>
        /\ hist.phase = "applied" => SameGraph(graph, hist.post)
        /\ hist.phase = "undone" => SameGraph(graph, hist.pre)

\* C7: after any commands applied in order and all undone in reverse order,
\* the graph has its initial node map, edge map and adjacency.
C7_LifoUndoRestores ==
    (hist.phase = "stack" /\ stack = <<>>) => SameGraph(graph, hist.pre)

----------------------------------------------------------------------------
(* What the manager's navigation stack says *)

\* C2: once a root is set, the navigation stack is the root-first chain got
\* by following parent_graph_id from the current graph: it starts with the
\* root's id and ends with the current graph's id.
C2_NavigationStackIsParentChain ==
    root_graph_id # None =>
        /\ ~path_diverges(graphs, current_graph_id, {})
        /\ navigation_stack = _build_path_to_graph(graphs, current_graph_id)
        /\ navigation_stack # <<>>
        /\ Head(navigation_stack) = root_graph_id
        /\ navigation_stack[Len(navigation_stack)] = current_graph_id

----------------------------------------------------------------------------
(* Claims on edges, removal and serialization *)

\* C11: in every state reached by add_node, remove_node, add_edge,
\* remove_edge, clear, from_dict and the redo and undo of the commands, every
\* edge of the edge map has its source_id and its target_id among the keys
\* of the node map.
C11_NoDanglingEdge == NoDanglingEdge(graph)

\* C11 witness: a RemoveNodeCommand is undone after a direct call removed
\* another endpoint of an edge it had captured; the graph still holds an edge.
C11_Witness ==
    /\ cmd.kind = "RemoveNode"
    /\ last.op = "undo"
    /\ cmd.removed_node # NoneObj
    /\ DOMAIN graph.edges # {}
    /\ \E j \in DOMAIN cmd.removed_edges :
          \/ cmd.removed_edges[j].source_id \notin DOMAIN graph.nodes
          \/ cmd.removed_edges[j].target_id \notin DOMAIN graph.nodes

\* C12: remove_node of a present id returns the removed node and leaves no
\* edge touching the id, no adjacency key for it and no occurrence of it in
\* another node's adjacency list; the other nodes and every edge that did
\* not touch the id are kept.
C12_RemoveNodeRemovesAllTraces ==
    [][ (last'.op = "remove_node" /\ last'.ret = RetObj) =>
          \E id \in DOMAIN graph.nodes \ DOMAIN graph'.nodes :
              /\ remove_node_ret(graph, id) = graph.nodes[id]
              /\ graph'.nodes = DictDel(graph.nodes, id)
              /\ \A k \in DOMAIN graph'.edges : ~connects(graph'.edges[k], id)
              /\ id \notin DOMAIN graph'.adjacency
              /\ \A n \in DOMAIN graph'.adjacency : ~InList(graph'.adjacency[n], id)
              /\ \A k \in DOMAIN graph.edges :
                    ~connects(graph.edges[k], id) =>
                        k \in DOMAIN graph'.edges /\ graph'.edges[k] = graph.edges[k] ]_vars

\* C12 witness: remove_node has just removed a node, and with it every edge
\* of the graph, while another node stays.
C12_Witness ==
    /\ last.op = "remove_node"
    /\ last.ret = RetObj
    /\ DOMAIN graph.nodes # {}
    /\ DOMAIN graph.edges = {}
    /\ \A n \in DOMAIN graph.adjacency : graph.adjacency[n] = <<>>

\* C13: remove_node with an id that is not in the node map and remove_edge
\* with an id that is not in the edge map return None and leave the node
\* map, the edge map and the adjacency map as they were.
C13_RemoveAbsentIsNoOp ==
    /\ [](\A node_id \in NodeIds \ DOMAIN graph.nodes :
                /\ remove_node_ret(graph, node_id) = NoneObj
                /\ remove_node(graph, node_id) = graph)
    /\ [](\A edge_id \in EdgeIds \ DOMAIN graph.edges :
                /\ remove_edge_ret(graph, edge_id) = NoneObj
                /\ remove_edge(graph, edge_id) = graph)
    /\ [][ (last'.op \in {"remove_node", "remove_edge"} /\ last'.ret = RetNone)
              => graph' = graph ]_vars

\* C13 witness: remove_node has just returned None on a graph that holds a
\* node and an edge.
C13_Witness ==
    /\ last.op = "remove_node"
    /\ last.ret = RetNone
    /\ DOMAIN graph.nodes # {}
    /\ DOMAIN graph.edges # {}

C15_FromDictDropsDangling ==
    last.op = "from_dict" =>
        LET ids == {last.arg.nodes[j].id : j \in DOMAIN last.arg.nodes}
            kept == {SceneEdge_from_dict(last.arg.edges[j]) : j \in
                        {m \in DOMAIN last.arg.edges :
                            /\ last.arg.edges[m].source_id \in ids
                            /\ last.arg.edges[m].target_id \in ids}}
        IN /\ last.exc = NoExc
           /\ {graph.edges[k] : k \in DOMAIN graph.edges} = kept
           /\ \A k \in DOMAIN graph.edges : graph.edges[k].id = k

\* C15 witness: a record with one edge between its nodes and one edge
\* naming a node it does not list has just been loaded.
C15_Witness ==
    /\ last.op = "from_dict"
    /\ Len(last.arg.edges) = 2
    /\ Cardinality(DOMAIN graph.edges) = 1
    /\ \E j \in DOMAIN last.arg.edges :
          last.arg.edges[j].target_id \notin DOMAIN graph.nodes

----------------------------------------------------------------------------
(* Claims on navigation and expansion *)

\* the ids of the breadcrumb path
BreadcrumbIds == [j \in DOMAIN get_breadcrumb_path(ThisManager) |->
                    get_breadcrumb_path(ThisManager)[j][1]]

\* path is the chain of registered graphs that leads from the root down to
\* g, each the parent graph of the next.
IsAncestorChain(path, g) ==
    /\ path # <<>>
    /\ path[1] = root_graph_id
    /\ path[Len(path)] = g
    /\ \A j \in DOMAIN path : path[j] \in DOMAIN graphs
    /\ graphs[path[1]].parent_graph_id = None
    /\ \A j \in 1..(Len(path) - 1) : graphs[path[j + 1]].parent_graph_id = path[j]

\* C16: after navigate_to(g) has returned True for a registered graph g,
\* get_breadcrumb_path() gives, root first, exactly the ids of the ancestor
\* chain from the root to g.
C16_BreadcrumbIsAncestorChain ==
    (last.op = "navigate_to" /\ last.ret = RetTrue) =>
        IsAncestorChain(BreadcrumbIds, last.arg)

\* C17: after create_child_graph(N, C) has returned, N.child_graph_id is
\* C.id, C.parent_node_id is N.id, C.depth_level is the depth_level of N's
\* owning graph plus one, C is registered and get_parent_graph(C.id) is N's
\* owning graph.
C17_ExpansionLinkage ==
    (last.op = "create_child_graph" /\ last.exc = NoExc) =>
        LET N == last.arg.node_after
            C == last.arg.child.id
            owner == last.arg.node.parent_graph_id
        IN /\ N.child_graph_id = C
           /\ last.arg.attached => graphs[owner].nodes[N.id].child_graph_id = C
           /\ C \in DOMAIN graphs
           /\ graphs[C].parent_node_id = N.id
           /\ graphs[C].depth_level = graphs[owner].depth_level + 1
           /\ get_parent_graph(ThisManager, C) # NoneObj
           /\ get_parent_graph(ThisManager, C).id = owner

\* C18: create_child_graph(N, C) raises ValueError exactly when the graph
\* N.parent_graph_id names is not registered, and then nothing is written:
\* C's parent_graph_id, parent_node_id and depth_level, N's child_graph_id
\* and the registry are as before.
C18_ParentNotFound ==
    [][ last'.op = "create_child_graph" =>
          /\ (last'.arg.node.parent_graph_id \notin DOMAIN graphs)
                <=> (last'.exc = ValueError)
          /\ last'.exc = ValueError =>
                /\ last'.arg.node_after = last'.arg.node
                /\ last'.arg.child_after = last'.arg.child
                /\ graphs' = graphs
                /\ root_graph_id' = root_graph_id
                /\ current_graph_id' = current_graph_id
                /\ navigation_stack' = navigation_stack ]_vars

\* C18 witness: create_child_graph has just raised for a node whose
\* parent_graph_id names a graph that is not registered, while other graphs
\* are.
C18_Witness ==
    /\ last.op = "create_child_graph"
    /\ last.exc = ValueError
    /\ last.arg.node.parent_graph_id # None
    /\ DOMAIN graphs # {}

\* The graph a navigation call is to reach, None if there is none
Target(op, arg) ==
    CASE op = "navigate_to" -> arg
      [] op = "navigate_to_child" ->
            IF current_graph_id \notin DOMAIN graphs THEN None
            ELSE IF arg \notin DOMAIN graphs[current_graph_id].nodes THEN None
            ELSE graphs[current_graph_id].nodes[arg].child_graph_id
      [] op = "navigate_up" ->
            IF current_graph_id \notin DOMAIN graphs THEN None
            ELSE graphs[current_graph_id].parent_graph_id
      [] op = "navigate_to_root" -> root_graph_id

NavigationOps == {"navigate_to", "navigate_to_child", "navigate_up", "navigate_to_root"}

\* C19: a navigation call whose target is missing or not registered returns
\* False without raising, and a navigation call that returns False leaves
\* the current graph id and the navigation stack as they were.
C19_NavigationFailure ==
    [][ last'.op \in NavigationOps =>
          LET arg == IF last'.op \in {"navigate_to", "navigate_to_child"}
                     THEN last'.arg ELSE None
          IN /\ Target(last'.op, arg) \notin DOMAIN graphs =>
                    last'.ret = RetFalse /\ last'.exc = NoExc
             /\ last'.ret = RetFalse =>
                    /\ current_graph_id' = current_graph_id
                    /\ navigation_stack' = navigation_stack ]_vars

\* C19 witness: navigate_to has just returned False for the id of a graph
\* that was removed, away from the root.
C19_Witness ==
    /\ last.op = "navigate_to"
    /\ last.ret = RetFalse
    /\ current_graph_id \in DOMAIN graphs
    /\ current_graph_id # root_graph_id
    /\ Len(navigation_stack) >= 2

\* C20: navigate_to_child(node_id) changes the current graph only if the
\* current graph has a node with that id whose child_graph_id is set; and
\* from the root R, whose node N was given the child graph C, it makes C
\* the current graph and [R, C] the breadcrumb path.
C20_NavigateToChild ==
    [][ last'.op = "navigate_to_child" =>
          /\ current_graph_id' # current_graph_id =>
                /\ current_graph_id \in DOMAIN graphs
                /\ last'.arg \in DOMAIN graphs[current_graph_id].nodes
                /\ graphs[current_graph_id].nodes[last'.arg].child_graph_id # None
          /\ \A R, C \in DOMAIN graphs :
                (/\ R # C
                 /\ root_graph_id = R /\ current_graph_id = R
                 /\ graphs[R].parent_graph_id = None
                 /\ last'.arg \in DOMAIN graphs[R].nodes
                 /\ graphs[R].nodes[last'.arg].child_graph_id = C
                 /\ graphs[C].parent_graph_id = R
                 /\ graphs[C].parent_node_id = last'.arg)
                => /\ current_graph_id' = C
                   /\ [j \in DOMAIN get_breadcrumb_path(ThisManager)' |->
                          get_breadcrumb_path(ThisManager)'[j][1]] = <<R, C>> ]_vars

\* C20 witness: navigate_to_child has just led from the root to the child
\* graph of one of its nodes.
C20_Witness ==
    /\ last.op = "navigate_to_child"
    /\ last.ret = RetTrue
    /\ navigation_stack = <<root_graph_id, current_graph_id>>
    /\ current_graph_id # root_graph_id
    /\ graphs[root_graph_id].nodes[last.arg].child_graph_id = current_graph_id

----------------------------------------------------------------------------
(* Claims on navigation, removal and the root *)

\* C21: navigate_to, navigate_to_child, navigate_up and navigate_to_root
\* write the current graph id and the navigation stack only: the registry
\* (every graph's nodes, edges, adjacency, parent links and depth) and the
\* root id are the same after the call as before it.
C21_NavigationChangesOnlyPosition ==
    [][last'.op \in NavigationOps =>
          /\ graphs' = graphs
          /\ root_graph_id' = root_graph_id]_vars

\* A navigation that moved: the current graph is a child graph reached
\* while another root than the path's first graph is set.
C21_Witness ==
    /\ last.op \in NavigationOps
    /\ last.ret = RetTrue
    /\ Len(navigation_stack) >= 2
    /\ current_graph_id # root_graph_id
    /\ navigation_stack[1] # root_graph_id

\* C22: remove_graph(id) returns False and changes nothing when id is not
\* registered.  Otherwise it returns True, id is neither in the navigation
\* stack nor in the registry, the current id is the root id if id was the
\* current graph and is unchanged if not, and the node that the removed
\* graph's parent_node_id names in its parent graph has no child_graph_id.
C22_RemoveGraph ==
    [][last'.op = "remove_graph" =>
          LET id == last'.arg
          IN IF id \notin DOMAIN graphs
             THEN /\ last'.ret = RetFalse
                  /\ last'.exc = NoExc
                  /\ UNCHANGED <<graphs, root_graph_id, current_graph_id,
                                 navigation_stack>>
             ELSE /\ last'.ret = RetTrue
                  /\ last'.exc = NoExc
                  /\ ~InList(navigation_stack', id)
                  /\ id \notin DOMAIN graphs'
                  /\ root_graph_id' = root_graph_id
                  /\ current_graph_id' = IF current_graph_id = id THEN root_graph_id
                                         ELSE current_graph_id
                  /\ LET pg == graphs[id].parent_graph_id
                         pn == graphs[id].parent_node_id
                     IN (pg \in DOMAIN graphs' /\ pn \in DOMAIN graphs'[pg].nodes)
                            => graphs'[pg].nodes[pn].child_graph_id = None]_vars

\* A graph between the root and a graph two levels down was removed while
\* it was the current graph: the root is now current and is alone in the
\* stack, its nodes have no child graph, and the graph below is still there.
C22_Witness ==
    /\ last.op = "remove_graph"
    /\ last.ret = RetTrue
    /\ root_graph_id \in DOMAIN graphs
    /\ current_graph_id = root_graph_id
    /\ navigation_stack = <<root_graph_id>>
    /\ \A n \in DOMAIN graphs[root_graph_id].nodes :
          graphs[root_graph_id].nodes[n].child_graph_id = None
    /\ \E o \in DOMAIN graphs : /\ graphs[o].parent_graph_id = last.arg
                                /\ graphs[o].depth_level = 2

\* The graph's parent chain passes through an id that names no registered
\* graph: an ancestor of the graph was removed.
Orphaned(gs, g) ==
    /\ g \in DOMAIN gs
    /\ ~path_diverges(gs, g, {})
    /\ \E j \in DOMAIN _build_path_to_graph(gs, g) :
          _build_path_to_graph(gs, g)[j] \notin DOMAIN gs

\* C23: remove_graph(g) leaves every other graph, the descendants of g among
\* them, in the registry, and no navigation operation makes a graph below a
\* removed graph the current graph.
C23_DescendantsUnreachable ==
    /\ [][(last'.op = "remove_graph" /\ last'.ret = RetTrue) =>
              DOMAIN graphs' = DOMAIN graphs \ {last'.arg}]_vars
    /\ []((last.op \in NavigationOps /\ last.ret = RetTrue) =>
              ~Orphaned(graphs, current_graph_id))

\* C24: after set_root(graph), whatever the manager held before, the graph
\* is registered with depth_level 0 and no parent_graph_id or parent_node_id,
\* the root id and the current id are the graph's id, and the navigation
\* stack is the one-element list of that id.
C24_SetRoot ==
    last.op = "set_root" =>
        /\ last.exc = NoExc
        /\ root_graph_id \in DOMAIN graphs
        /\ graphs[root_graph_id].id = root_graph_id
        /\ graphs[root_graph_id].depth_level = 0
        /\ graphs[root_graph_id].parent_graph_id = None
        /\ graphs[root_graph_id].parent_node_id = None
        /\ current_graph_id = root_graph_id
        /\ navigation_stack = <<root_graph_id>>

\* set_root was called with a registered graph that was a child graph: the
\* node it was made from still names it, and it is now the root at depth 0.
C24_Witness ==
    /\ last.op = "set_root"
    /\ root_graph_id \in DOMAIN graphs
    /\ \E p \in DOMAIN graphs \ {root_graph_id} :
          \E n \in DOMAIN graphs[p].nodes :
              graphs[p].nodes[n].child_graph_id = root_graph_id

----------------------------------------------------------------------------
(* Claims on the hierarchy's queries and its serialization *)

\* The ids met by following parent_graph_id upwards from graph g, g itself
\* left out
RECURSIVE ChainAbove(_, _, _)
ChainAbove(gs, g, seen) ==
    IF g \notin DOMAIN gs THEN {}
    ELSE LET p == gs[g].parent_graph_id
         IN IF p = None \/ p \in seen THEN {}
            ELSE {p} \cup ChainAbove(gs, p, seen \cup {p})

IdsOf(list) == [j \in DOMAIN list |-> list[j].id]

\* C29: get_all_descendant_graphs(id) returns the registered graphs whose
\* parent chain passes through id and no other, each once, a graph before
\* every graph below it; get_child_graphs(id) returns the registered graphs
\* whose parent_graph_id is id and no other.
C29_Descendants ==
    \A id \in GraphIds :
        LET all == get_all_descendant_graphs(ThisManager, id)
            ids == IdsOf(all.list)
            children == IdsOf(get_child_graphs(ThisManager, id))
        IN /\ all.exc = NoExc
           /\ ListSet(ids) = {g \in DOMAIN graphs : id \in ChainAbove(graphs, g, {})}
           /\ \A i, j \in DOMAIN ids : ids[i] = ids[j] => i = j
           /\ \A i, j \in DOMAIN ids :
                 ids[i] \in ChainAbove(graphs, ids[j], {}) => i < j
           /\ ListSet(children) = {g \in DOMAIN graphs : graphs[g].parent_graph_id = id}
           /\ \A i, j \in DOMAIN children : children[i] = children[j] => i = j

\* The manager read back from what to_dict writes
Restored == HierarchyManager_from_dict(HierarchyManager_to_dict(ThisManager))

\* C28: for the manager h of every reachable state, from_dict(h.to_dict())
\* returns a manager with the same registered ids, each graph with the same
\* fields, nodes and edges, the same root id and current id, and a
\* navigation stack that is the parent chain of the restored current id and
\* is h's navigation stack.
C28_HierarchyRoundTrip ==
    /\ Restored.exc = NoExc
    /\ DOMAIN Restored.h.graphs = DOMAIN graphs
    /\ \A g \in DOMAIN graphs :
          /\ SameGraph(Restored.h.graphs[g], graphs[g])
          /\ Restored.h.graphs[g].id = g
          /\ Restored.h.graphs[g].depth_level = graphs[g].depth_level
          /\ Restored.h.graphs[g].parent_graph_id = graphs[g].parent_graph_id
          /\ Restored.h.graphs[g].parent_node_id = graphs[g].parent_node_id
    /\ Restored.h.root_graph_id = root_graph_id
    /\ Restored.h.current_graph_id = current_graph_id
    /\ Restored.h.navigation_stack =
          _build_path_to_graph(Restored.h.graphs, Restored.h.current_graph_id)
    /\ Restored.h.navigation_stack = navigation_stack

----------------------------------------------------------------------------
(* Claims on the rendered image *)

\* C30: get_rendered_image() called right after set_rendered_image(b)
\* returns b, for every byte string b, the empty one included; and
\* has_rendered_image() is true exactly when get_rendered_image() returns a
\* value.
C30_ImageVerbatim ==
    /\ [][(last.op = "set_rendered_image" /\ last'.op = "get_rendered_image") =>
              /\ last'.ret = RetObj
              /\ last'.arg = last.arg]_vars
    /\ [](has_rendered_image(graph) <=> get_rendered_image(graph) # NoneObj)

----------------------------------------------------------------------------
(* Claims on AppState's handlers *)

\* The registered graphs made from node n
ChildGraphsOf(n) == {c \in DOMAIN graphs : graphs[c].parent_node_id = n}

\* The nodes of the registered graphs, as pairs of graph id and node id
RegisteredNodes ==
    {pn \in GraphIds \X (HierNodeIds \cup {MaxGraphs * MaxNodes + 1}) :
        pn[1] \in DOMAIN graphs /\ pn[2] \in DOMAIN graphs[pn[1]].nodes}

\* C25: a node has at most one child graph.  In every state at most one
\* registered graph has a node's id as parent_node_id, and that graph is the
\* one the node's child_graph_id names; a node's child_graph_id is set only
\* by an expansion; and expand_node on a node of the current graph that has
\* a child graph registers no graph.
C25_AtMostOneChildGraph ==
    /\ [](\A pn \in RegisteredNodes :
            /\ Cardinality(ChildGraphsOf(pn[2])) <= 1
            /\ \A c \in ChildGraphsOf(pn[2]) :
                  graphs[pn[1]].nodes[pn[2]].child_graph_id = c)
    /\ [][\A pn \in RegisteredNodes :
            (/\ graphs[pn[1]].nodes[pn[2]].child_graph_id = None
             /\ pn[1] \in DOMAIN graphs'
             /\ pn[2] \in DOMAIN graphs'[pn[1]].nodes
             /\ graphs'[pn[1]].nodes[pn[2]].child_graph_id # None)
                => last'.op \in {"create_child_graph", "expand_node"}]_vars
    /\ [][(/\ last'.op = "expand_node"
           /\ current_graph(ThisManager) # NoneObj
           /\ get_node(current_graph(ThisManager), last'.arg) # NoneObj
           /\ get_node(current_graph(ThisManager), last'.arg).child_graph_id # None)
              => DOMAIN graphs' = DOMAIN graphs]_vars

\* The handlers that write to the nodes or the edges of the current graph
EditingOps == {"update_node", "delete_node", "modify_graph"}

\* C26: when update_node, delete_node or modify_graph has changed the nodes
\* or the edges of the current graph, a command for the change is on top of
\* the undo stack, and undoing that command, which is what AppState.undo()
\* then does, gives the node map and the edge map the graph had before.
C26_EditsAreCommands ==
    [][(/\ last'.op \in EditingOps
        /\ current_graph(ThisManager) # NoneObj
        /\ \/ graphs'[current_graph_id].nodes # graphs[current_graph_id].nodes
           \/ graphs'[current_graph_id].edges # graphs[current_graph_id].edges)
          => /\ Len(stack') = Len(stack) + 1
             /\ undo(graphs'[current_graph_id], stack'[Len(stack')]).graph.nodes =
                    graphs[current_graph_id].nodes
             /\ undo(graphs'[current_graph_id], stack'[Len(stack')]).graph.edges =
                    graphs[current_graph_id].edges]_vars

\* C27: when modify_graph ends by emitting error_occurred, the node map and
\* the edge map of the current graph are those it had before the call: the
\* graph is left neither cleared nor partly refilled.
C27_ModifyIsAtomic ==
    [][(/\ last'.op = "modify_graph"
        /\ InList(last'.signals, "error_occurred")
        /\ current_graph(ThisManager) # NoneObj)
          => /\ graphs'[current_graph_id].nodes = graphs[current_graph_id].nodes
             /\ graphs'[current_graph_id].edges = graphs[current_graph_id].edges]_vars

----------------------------------------------------------------------------
(* Claims on the shape of the hierarchy *)

\* C33: no sequence of set_root, create_child_graph and remove_graph makes a
\* cycle of parent_graph_id, so that the loop of _build_path_to_graph under
\* navigate_to ends and get_all_descendant_graphs returns, for every graph.
C33_NoParentCycle ==
    /\ last.exc # Diverges
    /\ \A g \in DOMAIN graphs : ~path_diverges(graphs, g, {})
    /\ \A id \in GraphIds : get_all_descendant_graphs(ThisManager, id).exc = NoExc

\* C34: once a root was set, the root id and the current id each name a
\* registered graph, also after remove_graph of the root: current_graph and
\* root_graph are never None.
C34_RootAndCurrentRegistered ==
    root_graph_id # None =>
        /\ root_graph_id \in DOMAIN graphs
        /\ current_graph_id \in DOMAIN graphs
        /\ current_graph(ThisManager) # NoneObj

\* C36: the root graph has depth_level 0, and every other registered graph
\* whose parent graph is registered has its parent's depth_level plus one.
C36_DepthLevels ==
    /\ root_graph_id \in DOMAIN graphs => graphs[root_graph_id].depth_level = 0
    /\ \A g \in DOMAIN graphs \ {root_graph_id} :
          graphs[g].parent_graph_id \in DOMAIN graphs =>
              graphs[g].depth_level =
                  graphs[graphs[g].parent_graph_id].depth_level + 1

\* C35: referential integrity of the hierarchy.  Every child_graph_id that is
\* not None, of a node of a registered graph, names a registered graph; and
\* every registered graph other than the root has a registered parent graph
\* that holds the node its parent_node_id names.
C35_ReferentialIntegrity ==
    /\ \A pn \in RegisteredNodes :
          graphs[pn[1]].nodes[pn[2]].child_graph_id # None =>
              graphs[pn[1]].nodes[pn[2]].child_graph_id \in DOMAIN graphs
    /\ \A g \in DOMAIN graphs \ {root_graph_id} :
          /\ graphs[g].parent_graph_id \in DOMAIN graphs
          /\ graphs[g].parent_node_id \in
                 DOMAIN graphs[graphs[g].parent_graph_id].nodes

----------------------------------------------------------------------------
(* Claims on the hierarchy under AppState's handlers *)

\* C37: in every state that AppState's handlers reach, exactly one registered
\* graph has parent_graph_id None, and it is the root; the same holds of the
\* graphs of the serialized project.  Generating a new root leaves no graph
\* of the former hierarchy behind.
C37_OneRoot ==
    root_graph_id # None =>
        /\ {g \in DOMAIN graphs : graphs[g].parent_graph_id = None} = {root_graph_id}
        /\ \A j \in DOMAIN HierarchyManager_to_dict(ThisManager).graphs :
              HierarchyManager_to_dict(ThisManager).graphs[j].parent_graph_id = None
                  => HierarchyManager_to_dict(ThisManager).graphs[j].id =
                         HierarchyManager_to_dict(ThisManager).root_graph_id

\* C38: when expand_node ends by emitting error_occurred, the registry (and
\* with it every node's child_graph_id), the root id, the current id and the
\* navigation stack are those of before the call.  When it ends without an
\* error after loading_started, a graph that was not registered is
\* registered as the child graph of the expanded node, the node's
\* child_graph_id names it, and it is the current graph, at the end of the
\* navigation stack.
C38_ExpandIsAtomic ==
    /\ [][(last'.op = "expand_node" /\ InList(last'.signals, "error_occurred"))
            => UNCHANGED <<graphs, root_graph_id, current_graph_id,
                           navigation_stack>>]_vars
    /\ [][(/\ last'.op = "expand_node"
           /\ InList(last'.signals, "loading_started")
           /\ ~InList(last'.signals, "error_occurred"))
            => /\ current_graph_id' \notin DOMAIN graphs
               /\ current_graph_id' \in DOMAIN graphs'
               /\ graphs'[current_graph_id'].parent_graph_id = current_graph_id
               /\ graphs'[current_graph_id'].parent_node_id = last'.arg
               /\ graphs[current_graph_id].nodes[last'.arg].child_graph_id = None
               /\ graphs'[current_graph_id].nodes[last'.arg].child_graph_id =
                      current_graph_id'
               /\ navigation_stack' # <<>>
               /\ navigation_stack'[Len(navigation_stack')] = current_graph_id'
               /\ DOMAIN graphs' = DOMAIN graphs \cup {current_graph_id'}]_vars

\* expand_node has failed on a node of the current graph that can be expanded
C38_Witness ==
    /\ last.op = "expand_node"
    /\ InList(last.signals, "error_occurred")
    /\ current_graph(ThisManager) # NoneObj
    /\ last.arg \in DOMAIN graphs[current_graph_id].nodes
    /\ graphs[current_graph_id].nodes[last.arg].child_graph_id = None

\* C39: when load_project raises, for a file that cannot be read or for a
\* document that fails part of the way through, the registry, the root id,
\* the current id and the navigation stack are those of before the call;
\* when it succeeds they are those of the deserialized document.
C39_LoadIsAtomic ==
    /\ [][(last'.op = "load_project" /\ InList(last'.signals, "error_occurred"))
            => UNCHANGED <<graphs, root_graph_id, current_graph_id,
                           navigation_stack>>]_vars
    /\ [][(/\ last'.op = "load_project"
           /\ last'.exc = NoExc
           /\ ~InList(last'.signals, "error_occurred"))
            => ThisManager' = HierarchyManager_from_dict(ProjectFile(made + 1)).h]_vars

\* load_project has failed on a manager that holds graphs
C39_Witness ==
    /\ last.op = "load_project"
    /\ InList(last.signals, "error_occurred")
    /\ graphs # EmptyDict
    /\ current_graph(ThisManager) # NoneObj

\* The operations that emit loading_started
LoadingOps == {"load_project", "generate_graph", "modify_graph", "render_scene",
               "expand_node"}

\* Where in the signals of a call a signal was emitted
Emissions(signals, name) == {i \in DOMAIN signals : signals[i] = name}

\* C40: a call of load_project, generate_graph, modify_graph, render_scene
\* or expand_node that emits loading_started emits it once and emits exactly
\* one loading_finished, after it, whether the call succeeds or fails, and
\* every error_occurred of the call comes after that loading_finished.
C40_LoadingFinishedOnce ==
    (last.op \in LoadingOps /\ InList(last.signals, "loading_started")) =>
        /\ Cardinality(Emissions(last.signals, "loading_started")) = 1
        /\ Cardinality(Emissions(last.signals, "loading_finished")) = 1
        /\ \A s \in Emissions(last.signals, "loading_started"),
              f \in Emissions(last.signals, "loading_finished") :
                /\ s < f
                /\ \A e \in Emissions(last.signals, "error_occurred") : f < e

----------------------------------------------------------------------------
(* Claims on the translation of a generation result *)

\* The names of the nodes of a result
NamesOf(nodes) == {nodes[j].name : j \in DOMAIN nodes}

\* The place of the last node of a result that carries a name
LastNamed(nodes, name) ==
    CHOOSE j \in DOMAIN nodes :
        /\ nodes[j].name = name
        /\ \A i \in DOMAIN nodes : nodes[i].name = name => i <= j

\* C32: when a result is translated without an error, every node of the
\* result is in the graph under an id of its own that the graph did not hold
\* before; the k-th edge of the result is in the graph exactly when its
\* source name and its target name are both names of nodes of the result,
\* and no error is raised when it is not; and an edge naming a name that
\* several nodes carry joins the last of them.
C32_Translation ==
    /\ [][last'.op = "translate" =>
            (last'.exc = NoExc <=>
                 \A k \in DOMAIN last'.arg.nodes : last'.arg.nodes[k].x # NoneObj)]_vars
    /\ [][(last'.op = "translate" /\ last'.exc = NoExc) =>
          LET nodes == last'.arg.nodes
              edges == last'.arg.edges
          IN /\ Cardinality(DOMAIN graph'.nodes) = Len(nodes)
             /\ DOMAIN graph'.nodes \cap DOMAIN graph.nodes = {}
             /\ \A k \in DOMAIN nodes :
                   /\ NodeOf(made', k) \in DOMAIN graph'.nodes
                   /\ graph'.nodes[NodeOf(made', k)].name = nodes[k].name
             /\ Cardinality(DOMAIN graph'.edges) <= Len(edges)
             /\ \A k \in DOMAIN edges :
                   /\ EdgeOf(made', k) \in DOMAIN graph'.edges
                         <=> /\ edges[k].source \in NamesOf(nodes)
                             /\ edges[k].target \in NamesOf(nodes)
                   /\ EdgeOf(made', k) \in DOMAIN graph'.edges =>
                         /\ graph'.edges[EdgeOf(made', k)].source_id =
                                NodeOf(made', LastNamed(nodes, edges[k].source))
                         /\ graph'.edges[EdgeOf(made', k)].target_id =
                                NodeOf(made', LastNamed(nodes, edges[k].target))]_vars

\* A result with two nodes of one name and an edge that names it has been
\* translated into a graph, as the second result
C32_Witness ==
    /\ last.op = "translate"
    /\ last.exc = NoExc
    /\ Len(last.arg.nodes) = 2
    /\ last.arg.nodes[1].name = last.arg.nodes[2].name
    /\ Len(last.arg.edges) = 1
    /\ last.arg.edges[1].source = last.arg.nodes[1].name
    /\ last.arg.edges[1].target = last.arg.nodes[1].name
    /\ DOMAIN graph.edges # {}
    /\ made = 2

----------------------------------------------------------------------------
(* Claims on what clear and the commands leave alone *)

\* The fields of a graph other than its three maps
Scalars(g) ==
    [id |-> g.id, name |-> g.name, master_prompt |-> g.master_prompt,
     depth_level |-> g.depth_level, parent_graph_id |-> g.parent_graph_id,
     parent_node_id |-> g.parent_node_id, rendered_image |-> g.rendered_image]

\* C31: clear() empties the node map, the edge map and the adjacency map and
\* leaves the rendered image as it is; and the redo() and the undo() of a
\* command of any kind, ReplaceGraph included, leave the graph's rendered
\* image, id, name, prompt, depth level and parent links as they are.
C31_ClearKeepsScalars ==
    /\ [][last'.op = "clear" =>
            /\ graph'.nodes = EmptyDict
            /\ graph'.edges = EmptyDict
            /\ graph'.adjacency = EmptyDict
            /\ Scalars(graph') = Scalars(graph)]_vars
    /\ [][last'.op \in {"redo", "undo"} => Scalars(graph') = Scalars(graph)]_vars

\* A ReplaceGraph command has been undone on a child graph that holds an
\* image and nodes
C31_Witness ==
    /\ last.op = "undo"
    /\ cmd # NoCmd
    /\ cmd.kind = "ReplaceGraph"
    /\ graph.rendered_image # NoneObj
    /\ graph.depth_level = 1
    /\ graph.name = "a"
    /\ graph.nodes # EmptyDict

============================================================================
